---- MODULE Spec2Model ----
(***************************************************************************)
(* GhostScore sync (hawkdrop/ghost): a batch job that pages survey reports *)
(* out of a source table, groups them by employer, scores them and         *)
(* reconciles one row per employer into a target table.                    *)
(*                                                                         *)
(* The repository holds several generations of the job.  They are modelled *)
(* side by side and told apart by the variable `variant`:                  *)
(*   "sync"    src/src/index.js 1-347      (the complete pipeline)         *)
(*   "aggregate" src/src/index.js 349-594  (aggregate + /upsert endpoint)  *)
(*   "insert"  src/unnamed/part_000 1-117  (score each row, insert)        *)
(*   "stream"  src/unnamed/part_000 119-210 (page, transform, upsert)      *)
(*                                                                         *)
(* Text is modelled as a sequence of characters; a character is a         *)
(* one-letter string, or "U+XXXX" for a character outside ASCII.           *)
(***************************************************************************)
EXTENDS Integers, Sequences, FiniteSets, TLC

VARIABLES
  \* ---- a run of the job ---------------------------------------------
  variant,     \* which generation of the job runs
  DRY_RUN,     \* process.env.DRY_RUN   (a string, or undefined)
  PAGE_SIZE,   \* process.env.PAGE_SIZE (a string, or undefined)
  sourceTable, \* the rows of the source table, in listing order
  targetTable, \* the rows of the target table, in listing order
  pc,          \* where the run stands
  offset,      \* fetchAllRows: let offset
  collected,   \* fetchAllRows: the rows gathered so far
  allRows,     \* what fetchAllRows(SOURCE_TABLE) returned
  groups,      \* the employers, in iteration order
  targetCache, \* the snapshot buildTargetCache returned
  idx,         \* the employer (or row) the write loop stands at
  reads,       \* every listing request sent: [table, limit, offset]
  calls,       \* every mutating call sent (POST, PATCH), with its outcome
  \* ---- normalizer harness -------------------------------------------
  name,        \* the display name handed to normalizeCompanyKey
  key,         \* normalizeCompanyKey(name)
  rekey,       \* normalizeCompanyKey(key)
  npc,         \* "idle" | "start" | "once" | "twice"
  \* ---- increment harness --------------------------------------------
  report,      \* the report handed to reportIncrement
  inc,         \* reportIncrement(report)
  ipc,         \* "idle" | "start" | "done"
  \* ---- score harness: one employer's fold, report by report ---------
  groupRows,   \* the reports of the employer (group.rows)
  stats,       \* the stats object
  reportsCount,\* N, the reports folded so far
  incs,        \* the sum of the increments folded so far, as an integer
  score,       \* the GhostScore derived from stats
  spc,         \* "idle" | "fold" | "done"
  \* ---- function harness: one helper of the job applied to arguments ---
  fn,          \* the helper applied
  args,        \* its arguments
  result,      \* what it returned
  fpc          \* "idle" | "start" | "done"

runVars == <<variant, DRY_RUN, PAGE_SIZE, sourceTable, targetTable, pc, offset,
             collected, allRows, groups, targetCache, idx, reads, calls>>
normVars == <<name, key, rekey, npc>>
incVars == <<report, inc, ipc>>
scoreVars == <<groupRows, stats, reportsCount, incs, score, spc>>
fnVars == <<fn, args, result, fpc>>
vars == <<runVars, normVars, incVars, scoreVars, fnVars>>

(***************************************************************************)
(* Characters and strings                                                  *)
(***************************************************************************)
UpperCase == <<"A","B","C","D","E","F","G","H","I","J","K","L","M",
               "N","O","P","Q","R","S","T","U","V","W","X","Y","Z">>
LowerCase == <<"a","b","c","d","e","f","g","h","i","j","k","l","m",
               "n","o","p","q","r","s","t","u","v","w","x","y","z">>
Digit == {"0","1","2","3","4","5","6","7","8","9"}

AlnumChars ==
  {UpperCase[i] : i \in 1..26} \cup {LowerCase[i] : i \in 1..26} \cup Digit
WordChars == AlnumChars \cup {"_"}

\* [a-z0-9] under the i flag: ASCII letters of either case, and digits.
IsAlnum(c) == c \in AlnumChars

\* \w : [A-Za-z0-9_].  The underscore is a word character.
IsWordChar(c) == c \in WordChars

\* \s : the white space of this model is the blank.
IsSpace(c) == c = " "

\* [U+0300-U+036F] : combining diacritical marks.
IsCombiningMark(c) == c \in {"U+0301"}

\* String.prototype.toLowerCase, one character.
UpperToLower ==
  [c \in {UpperCase[i] : i \in 1..26} |->
     LowerCase[CHOOSE i \in 1..26 : UpperCase[i] = c]]
toLowerCaseChar(c) ==
  IF c \in DOMAIN UpperToLower THEN UpperToLower[c]
  ELSE IF c = "U+00C9" THEN "U+00E9" ELSE c

toLowerCase(s) == [i \in 1..Len(s) |-> toLowerCaseChar(s[i])]

\* String.prototype.trim
RECURSIVE TrimLeft(_)
TrimLeft(s) == IF s # <<>> /\ IsSpace(Head(s)) THEN TrimLeft(Tail(s)) ELSE s
RECURSIVE TrimRight(_)
TrimRight(s) ==
  IF s # <<>> /\ IsSpace(s[Len(s)]) THEN TrimRight(SubSeq(s, 1, Len(s) - 1)) ELSE s
trim(s) == TrimRight(TrimLeft(s))

\* The end of the maximal run that starts at i, in = [k |-> whether the k-th
\* character belongs to the class the run is made of].
RunEnd(in, i) ==
  CHOOSE j \in i..Len(in) :
    /\ \A k \in i..j : in[k]
    /\ j = Len(in) \/ ~in[j + 1]

(***************************************************************************)
(* normalizeCompanyKey -- src/src/index.js 24-29                           *)
(***************************************************************************)
unknown == <<"u","n","k","n","o","w","n">>

\* String.prototype.normalize("NFKD"): compatibility decomposition.
DecomposeChar(c) ==
  CASE c = "U+00E9" -> <<"e", "U+0301">>
    [] c = "U+00C9" -> <<"E", "U+0301">>
    [] OTHER -> <<c>>
RECURSIVE NFKD(_)
NFKD(s) == IF s = <<>> THEN <<>> ELSE DecomposeChar(Head(s)) \o NFKD(Tail(s))

\* .replace(/[U+0300-U+036F]/g,"")
StripMarks(s) == SelectSeq(s, LAMBDA c : ~IsCombiningMark(c))

\* The alternatives of /\b(ltd|pvt|private|inc|llc|co|company|ltd\.)\b/gi.
\* Every alternative but the last is made of word characters only, so with a
\* \b on both sides a match is a whole maximal run of word characters; "ltd\."
\* is tried after "ltd", which already matches wherever it could.
SuffixWords ==
  { <<"l","t","d">>, <<"p","v","t">>, <<"p","r","i","v","a","t","e">>,
    <<"i","n","c">>, <<"l","l","c">>, <<"c","o">>,
    <<"c","o","m","p","a","n","y">> }

\* .replace(/\b(ltd|...)\b/gi,"") : delete each whole word that is a suffix,
\* in s from position i on.
RECURSIVE RemoveSuffixesFrom(_, _)
RemoveSuffixesFrom(s, i) ==
  IF i > Len(s) THEN <<>>
  ELSE IF ~IsWordChar(s[i]) THEN <<s[i]>> \o RemoveSuffixesFrom(s, i + 1)
  ELSE LET j == RunEnd([k \in 1..Len(s) |-> IsWordChar(s[k])], i)
           w == SubSeq(s, i, j)
       IN  (IF toLowerCase(w) \in SuffixWords THEN <<>> ELSE w)
             \o RemoveSuffixesFrom(s, j + 1)

\* .replace(/[^a-z0-9]+/gi," ") : each run of other characters becomes a blank.
RECURSIVE CollapseFrom(_, _)
CollapseFrom(s, i) ==
  IF i > Len(s) THEN <<>>
  ELSE IF IsAlnum(s[i]) THEN <<s[i]>> \o CollapseFrom(s, i + 1)
  ELSE <<" ">>
         \o CollapseFrom(s, RunEnd([k \in 1..Len(s) |-> ~IsAlnum(s[k])], i) + 1)

\* .replace(/\s+/g,"-") : each run of white space becomes a hyphen.
RECURSIVE HyphenateFrom(_, _)
HyphenateFrom(s, i) ==
  IF i > Len(s) THEN <<>>
  ELSE IF ~IsSpace(s[i]) THEN <<s[i]>> \o HyphenateFrom(s, i + 1)
  ELSE <<"-">>
         \o HyphenateFrom(s, RunEnd([k \in 1..Len(s) |-> IsSpace(s[k])], i) + 1)

normalizeCompanyKey(n) ==
  IF n = <<>> THEN unknown
  ELSE HyphenateFrom(
         toLowerCase(trim(CollapseFrom(
           RemoveSuffixesFrom(StripMarks(NFKD(n)), 1), 1))), 1)

(***************************************************************************)
(* JavaScript values, as far as the job computes with them                 *)
(***************************************************************************)
Undefined == [t |-> "undefined"]
Null == [t |-> "null"]
NaN == [t |-> "NaN"]
Num(n) == [t |-> "number", n |-> n]
Str(s) == [t |-> "string", s |-> s]
\* A member inherited from Object.prototype, such as ({}).constructor.
NativeFunction == [t |-> "function"]

IsNullish(v) == v.t \in {"undefined", "null"}

\* ToBoolean
Truthy(v) ==
  CASE v.t = "string" -> v.s # <<>>
    [] v.t = "number" -> v.n # 0
    [] v.t \in {"undefined", "null", "NaN"} -> FALSE
    [] OTHER -> TRUE

\* a || b
Or(a, b) == IF Truthy(a) THEN a ELSE b

DigitChars == <<"0","1","2","3","4","5","6","7","8","9">>

\* Number.prototype.toString of a non-negative integer.
RECURSIVE DecimalString(_)
DecimalString(n) ==
  IF n < 10 THEN <<DigitChars[n + 1]>>
  ELSE Append(DecimalString(n \div 10), DigitChars[(n % 10) + 1])

DigitValue(c) == (CHOOSE i \in 1..10 : DigitChars[i] = c) - 1

\* The value of a string of decimal digits ("0200" is 200).
RECURSIVE ParseDecimal(_)
ParseDecimal(s) ==
  IF s = <<>> THEN 0
  ELSE 10 * ParseDecimal(SubSeq(s, 1, Len(s) - 1)) + DigitValue(s[Len(s)])

IsDecimal(s) == s # <<>> /\ \A i \in 1..Len(s) : s[i] \in Digit

\* Function.prototype.toString of a built-in.
NativeFunctionText == <<"f","u","n","c","t","i","o","n"," ","O","b","j","e","c","t","(",")",
                        " ","{"," ","[","n","a","t","i","v","e"," ","c","o","d","e","]"," ",
                        "}">>

\* ToString
toString(v) ==
  CASE v.t = "string" -> v.s
    [] v.t = "number" -> DecimalString(v.n)
    [] v.t = "NaN" -> <<"N","a","N">>
    [] v.t = "undefined" -> <<"u","n","d","e","f","i","n","e","d">>
    [] v.t = "null" -> <<"n","u","l","l">>
    [] OTHER -> NativeFunctionText

\* ToNumber
toNumber(v) ==
  CASE v.t = "number" -> v
    [] v.t = "string" ->
         IF trim(v.s) = <<>> THEN Num(0)
         ELSE IF IsDecimal(trim(v.s)) THEN Num(ParseDecimal(trim(v.s)))
         ELSE NaN
    [] v.t = "null" -> Num(0)
    [] OTHER -> NaN

\* a + b : numbers add; with a string or an object operand the two are
\* converted to strings and concatenated.
Plus(a, b) ==
  IF a.t = "number" /\ b.t = "number" THEN Num(a.n + b.n)
  ELSE IF a.t \in {"number", "NaN"} /\ b.t \in {"number", "NaN"} THEN NaN
  ELSE Str(toString(a) \o toString(b))

(***************************************************************************)
(* Objects: a sequence of <<key, value>> pairs in insertion order, with    *)
(* distinct keys.                                                          *)
(***************************************************************************)
HasOwn(o, k) == \E i \in 1..Len(o) : o[i][1] = k
OwnValue(o, k) == o[CHOOSE i \in 1..Len(o) : o[i][1] = k][2]

\* The names every object literal inherits from Object.prototype.
ObjectPrototypeKeys ==
  { <<"c","o","n","s","t","r","u","c","t","o","r">>, <<"t","o","S","t","r","i","n","g">>, <<"v","a","l","u","e","O","f">>, <<"h","a","s","O","w","n","P","r","o","p","e","r","t","y">> }

\* o[k] : the own property, else the inherited one, else undefined.
Get(o, k) ==
  IF HasOwn(o, k) THEN OwnValue(o, k)
  ELSE IF k \in ObjectPrototypeKeys THEN NativeFunction
  ELSE Undefined

\* {...a, ...b} : a's keys in order, then b's new keys; b's values win.
Spread(a, b) ==
  [i \in 1..Len(a) |->
     <<a[i][1], IF HasOwn(b, a[i][1]) THEN OwnValue(b, a[i][1]) ELSE a[i][2]>>]
    \o SelectSeq(b, LAMBDA p : ~HasOwn(a, p[1]))

(***************************************************************************)
(* Regular expressions.  A pattern is a sequence of atoms; an atom is a    *)
(* character class with a quantifier ("1", "?" or "*"), or an assertion    *)
(* ("^" or "b").  All the patterns of the job but one carry the i flag and *)
(* that one has no letters, so a class holds lower-case characters and the *)
(* subject is lowered before it is compared.                               *)
(***************************************************************************)
One(cs) == [q |-> "1", any |-> FALSE, cs |-> cs]
Opt(cs) == [q |-> "?", any |-> FALSE, cs |-> cs]
Star(cs) == [q |-> "*", any |-> FALSE, cs |-> cs]
OptAny == [q |-> "?", any |-> TRUE, cs |-> {}]
Bol == [q |-> "^", any |-> FALSE, cs |-> {}]
WordBoundary == [q |-> "b", any |-> FALSE, cs |-> {}]
Lit(w) == [i \in 1..Len(w) |-> One({toLowerCaseChar(w[i])})]

WhiteSpace == {" "}
Dashes == {"-", "U+2013", "U+2014"}

AtWordBoundary(s, j) ==
  LET before == j > 1 /\ IsWordChar(s[j - 1])
      after == j <= Len(s) /\ IsWordChar(s[j])
  IN  before # after

RECURSIVE MatchHere(_, _, _, _)
MatchHere(p, k, s, j) ==
  IF k > Len(p) THEN TRUE
  ELSE LET a == p[k]
           takes == j <= Len(s) /\ (a.any \/ s[j] \in a.cs)
       IN  CASE a.q = "^" -> j = 1 /\ MatchHere(p, k + 1, s, j)
             [] a.q = "b" -> AtWordBoundary(s, j) /\ MatchHere(p, k + 1, s, j)
             [] a.q = "1" -> takes /\ MatchHere(p, k + 1, s, j + 1)
             [] a.q = "?" -> \/ takes /\ MatchHere(p, k + 1, s, j + 1)
                             \/ MatchHere(p, k + 1, s, j)
             [] a.q = "*" -> \/ takes /\ MatchHere(p, k, s, j + 1)
                             \/ MatchHere(p, k + 1, s, j)

\* RegExp.prototype.test
test(p, s) ==
  LET subject == toLowerCase(s)
  IN  \E j \in 1..(Len(subject) + 1) : MatchHere(p, 1, subject, j)

(***************************************************************************)
(* The names of the columns the job reads                                  *)
(***************************************************************************)
\* The members of a row the job reads by name.
Field ==
  [ fields |-> <<"f","i","e","l","d","s">>,
    Title |-> <<"T","i","t","l","e">>,
    CompanyName |-> <<"C","o","m","p","a","n","y"," ","N","a","m","e">>,
    CompanyKey |-> <<"C","o","m","p","a","n","y"," ","K","e","y">>,
    id |-> <<"i","d">>,
    Id |-> <<"I","d">>,
    Website |-> <<"C","o","m","p","a","n","y"," ","W","e","b","s","i","t","e"," ","U",
                  "R","L"," ","(","O","p","t","i","o","n","a","l",")">> ]

\* The survey questions, as the columns of a report.
Question ==
  [ Stage |-> <<"W","h","e","r","e"," ","i","n"," ","t","h","e"," ","H","i","r","i",
                "n","g"," ","P","r","o","c","e","s","s"," ","D","i","d"," ","G","h",
                "o","s","t","i","n","g"," ","H","a","p","p","e","n","?">>,
    Assignment |-> <<"W","h","a","t"," ","T","y","p","e"," ","o","f"," ","A","s","s","i",
                     "g","n","m","e","n","t"," ","W","a","s"," ","G","i","v","e","n","?">>,
    Duration |-> <<"H","o","w"," ","L","o","n","g"," ","D","i","d"," ","I","t"," ","T",
                   "a","k","e"," ","Y","o","u"," ","t","o"," ","C","o","m","p","l","e",
                   "t","e"," ","t","h","e"," ","A","s","s","i","g","n","m","e","n","t",
                   "?">>,
    Paid |-> <<"W","a","s"," ","t","h","e"," ","i","n","t","e","r","v","i","e","w",
               " ","a","s","s","i","g","n","m","e","n","t"," ","p","a","i","d","?">>,
    Feedback |-> <<"D","i","d"," ","Y","o","u"," ","R","e","c","e","i","v","e"," ","A",
                   "n","y"," ","F","e","e","d","b","a","c","k"," ","o","n"," ","Y","o",
                   "u","r"," ","W","o","r","k","?">>,
    Receipt |-> <<"D","i","d"," ","T","h","e","y"," ","C","o","n","f","i","r","m"," ",
                  "R","e","c","e","i","p","t"," ","o","f"," ","Y","o","u","r"," ","W",
                  "o","r","k","?">>,
    Followup |-> <<"D","i","d"," ","Y","o","u"," ","F","o","l","l","o","w"," ","U","p",
                   " ","A","f","t","e","r"," ","T","h","e","y"," ","S","t","o","p","p",
                   "e","d"," ","R","e","s","p","o","n","d","i","n","g","?">>,
    Wait |-> <<"H","o","w"," ","L","o","n","g"," ","D","i","d"," ","Y","o","u"," ",
               "W","a","i","t"," ","B","e","f","o","r","e"," ","R","e","a","l","i",
               "z","i","n","g"," ","Y","o","u"," ","W","e","r","e"," ","G","h","o",
               "s","t","e","d","?">>,
    Rejection |-> <<"D","i","d"," ","Y","o","u"," ","R","e","c","e","i","v","e"," ","a",
                    "n"," ","O","f","f","i","c","i","a","l"," ","R","e","j","e","c","t",
                    "i","o","n","?">>,
    OtherAssignment |-> <<"O","t","h","e","r"," ","A","s","s","i","g","n","m","e","n","t"," ",
                          "T","y","p","e">>,
    AiScreening |-> <<"D","i","d"," ","t","h","e"," ","C","o","m","p","a","n","y"," ","R",
                      "e","q","u","i","r","e"," ","A","I"," ","S","c","r","e","e","n","i",
                      "n","g"," ","B","e","f","o","r","e"," ","A","n","y"," ","I","n","t",
                      "e","r","v","i","e","w","?">>,
    ApplyAgain |-> <<"W","o","u","l","d"," ","Y","o","u"," ","A","p","p","l","y"," ","t",
                     "o"," ","T","h","i","s"," ","C","o","m","p","a","n","y"," ","A","g",
                     "a","i","n","?">>,
    Recommend |-> <<"W","o","u","l","d"," ","Y","o","u"," ","R","e","c","o","m","m","e",
                    "n","d"," ","T","h","i","s"," ","E","m","p","l","o","y","e","r","?">> ]

(***************************************************************************)
(* safeGet -- src/src/index.js 30-37.  A row is an object.                 *)
(***************************************************************************)
Min(S) == CHOOSE x \in S : \A y \in S : x <= y

safeGet(row, k) ==
  LET own == Get(row, k)
      fields == Get(row, Field.fields)
      nested == IF fields.t = "object" THEN Get(fields.o, k) ELSE Undefined
      all == Spread(IF fields.t = "object" THEN fields.o ELSE <<>>, row)
      hits == {i \in 1..Len(all) : toLowerCase(all[i][1]) = toLowerCase(k)}
      found == IF hits = {} THEN Undefined ELSE Str(all[Min(hits)][1])
  IN  IF ~IsNullish(own) THEN own
      ELSE IF Truthy(fields) /\ ~IsNullish(nested) THEN nested
      ELSE IF Truthy(found) THEN all[Min(hits)][2]
      ELSE Str(<<>>)

\* (safeGet(r,k)||"").toString()
textOf(r, k) == toString(Or(safeGet(r, k), Str(<<>>)))

(***************************************************************************)
(* STAGE_WEIGHTS -- src/src/index.js 63-70                                 *)
(***************************************************************************)
S_NoResponseApplication == <<"N","o"," ","R","e","s","p","o","n","s","e"," ","A","f","t","e","r",
                             " ","A","p","p","l","i","c","a","t","i","o","n">>
S_AfterVerbalOffer == <<"G","h","o","s","t","e","d"," ","A","f","t","e","r"," ","V","e","r",
                        "b","a","l"," ","O","f","f","e","r">>

STAGE_WEIGHTS ==
  << <<S_NoResponseApplication, Num(5)>>,
     <<<<"N","o"," ","R","e","s","p","o","n","s","e"," ","A","f","t","e","r",
         " ","I","n","i","t","i","a","l"," ","I","n","q","u","i","r","y">>, Num(5)>>,
     <<<<"G","h","o","s","t","e","d"," ","A","f","t","e","r"," ","F","i","r",
         "s","t"," ","I","n","t","e","r","v","i","e","w">>, Num(20)>>,
     <<<<"G","h","o","s","t","e","d"," ","A","f","t","e","r"," ","M","u","l",
         "t","i","p","l","e"," ","I","n","t","e","r","v","i","e","w","s">>, Num(50)>>,
     <<<<"G","h","o","s","t","e","d"," ","A","f","t","e","r"," ","C","o","m",
         "p","l","e","t","i","n","g"," ","a","n"," ","A","s","s","i","g","n",
         "m","e","n","t">>, Num(25)>>,
     <<S_AfterVerbalOffer, Num(60)>> >>

(***************************************************************************)
(* The patterns of reportIncrement -- src/src/index.js 77-102              *)
(***************************************************************************)
\* /no assignments required/i
RE_noAssignmentsRequired == Lit(<<"n","o"," ","a","s","s","i","g","n","m","e","n","t","s"," ","r","e",
                                  "q","u","i","r","e","d">>)
\* /^\s*no\b/i
RE_startsNo == <<Bol, Star(WhiteSpace)>> \o Lit(<<"n","o">>) \o <<WordBoundary>>
\* /no feedback/i
RE_noFeedback == Lit(<<"n","o"," ","f","e","e","d","b","a","c","k">>)
\* /vague/i
RE_vague == Lit(<<"v","a","g","u","e">>)
\* /no response/i
RE_noResponse == Lit(<<"n","o"," ","r","e","s","p","o","n","s","e">>)

\* The patterns of the duration ladder (81-84).
DurationPatterns ==
  [ \* /<\s*2/i
    lt2 |-> <<One({"<"}), Star(WhiteSpace), One({"2"})>>,
    \* /less than 2/i
    lessThan2 |-> Lit(<<"l","e","s","s"," ","t","h","a","n"," ","2">>),
    \* /2.?[\-(U+2013)(U+2014)]?5/i
    from2to5 |-> <<One({"2"}), OptAny, Opt(Dashes), One({"5"})>>,
    \* /2\s*(U+2013)\s*5/i
    dash2to5 |-> <<One({"2"}), Star(WhiteSpace), One({"U+2013"}),
                   Star(WhiteSpace), One({"5"})>>,
    \* /5.?[\-(U+2013)(U+2014)]?10/i
    from5to10 |-> <<One({"5"}), OptAny, Opt(Dashes), One({"1"}), One({"0"})>>,
    \* /5\s*(U+2013)\s*10/i
    dash5to10 |-> <<One({"5"}), Star(WhiteSpace), One({"U+2013"}),
                    Star(WhiteSpace), One({"1"}), One({"0"})>>,
    \* /more than 10|> ?10/i : the two alternatives
    moreThan10 |-> Lit(<<"m","o","r","e"," ","t","h","a","n"," ","1","0">>),
    gt10 |-> <<One({">"}), Opt({" "}), One({"1"}), One({"0"})>>,
    \* /10\+/
    plus10 |-> Lit(<<"1","0","+">>) ]

\* The patterns of the wait ladder (97-100).
WaitPatterns ==
  [ \* /<\s*1/i
    lt1 |-> <<One({"<"}), Star(WhiteSpace), One({"1"})>>,
    \* /less than 1/i
    lessThan1 |-> Lit(<<"l","e","s","s"," ","t","h","a","n"," ","1">>),
    \* /<\s*1 Week/i
    lt1Week |-> <<One({"<"}), Star(WhiteSpace)>> \o Lit(<<"1"," ","w","e","e","k">>),
    \* /1.?[\-(U+2013)(U+2014)]?2/i
    from1to2 |-> <<One({"1"}), OptAny, Opt(Dashes), One({"2"})>>,
    \* /1\s*(U+2013)\s*2/i
    dash1to2 |-> <<One({"1"}), Star(WhiteSpace), One({"U+2013"}),
                   Star(WhiteSpace), One({"2"})>>,
    \* /2.?[\-(U+2013)(U+2014)]?4/i
    from2to4 |-> <<One({"2"}), OptAny, Opt(Dashes), One({"4"})>>,
    \* /2\s*(U+2013)\s*4/i
    dash2to4 |-> <<One({"2"}), Star(WhiteSpace), One({"U+2013"}),
                   Star(WhiteSpace), One({"4"})>>,
    \* /more than 1 month|> ?1 month/i : the two alternatives
    moreThan1Month |-> Lit(<<"m","o","r","e"," ","t","h","a","n"," ","1"," ","m","o","n","t",
                             "h">>),
    gt1Month |-> <<One({">"}), Opt({" "})>> \o Lit(<<"1"," ","m","o","n","t","h">>) ]

(***************************************************************************)
(* reportIncrement -- src/src/index.js 72-104                              *)
(***************************************************************************)
\* if(cond) inc += n
AddIf(v, cond, n) == IF cond THEN Plus(v, Num(n)) ELSE v

\* One arm of an else-if ladder of penalties: inc += n, or nothing when no
\* arm matched.
AddPenalty(v, n) == IF n # 0 THEN Plus(v, Num(n)) ELSE v

\* The graduated penalty for the time the assignment took (81-84).
durationPenalty(dur) ==
  IF test(DurationPatterns.lt2, dur) \/ test(DurationPatterns.lessThan2, dur)
    THEN 20
  ELSE IF test(DurationPatterns.from2to5, dur) \/ test(DurationPatterns.dash2to5, dur)
    THEN 30
  ELSE IF test(DurationPatterns.from5to10, dur) \/ test(DurationPatterns.dash5to10, dur)
    THEN 50
  ELSE IF \/ test(DurationPatterns.moreThan10, dur)
          \/ test(DurationPatterns.gt10, dur)
          \/ test(DurationPatterns.plus10, dur)
    THEN 75
  ELSE 0

\* The penalty for the wait before realizing (97-100).
waitPenalty(wait) ==
  IF \/ test(WaitPatterns.lt1, wait)
     \/ test(WaitPatterns.lessThan1, wait)
     \/ test(WaitPatterns.lt1Week, wait)
    THEN 15
  ELSE IF test(WaitPatterns.from1to2, wait) \/ test(WaitPatterns.dash1to2, wait)
    THEN 25
  ELSE IF test(WaitPatterns.from2to4, wait) \/ test(WaitPatterns.dash2to4, wait)
    THEN 40
  ELSE IF test(WaitPatterns.moreThan1Month, wait) \/ test(WaitPatterns.gt1Month, wait)
    THEN 60
  ELSE 0

\* const assignmentProvided=assignment&&assignment.toString().trim()&&!/.../i.test(assignment)
assignmentProvided(assignment) ==
  /\ Truthy(assignment)
  /\ trim(toString(assignment)) # <<>>
  /\ ~test(RE_noAssignmentsRequired, toString(assignment))

\* inc+=STAGE_WEIGHTS[stage]||0  (75)
stagePenalty(r) == Or(Get(STAGE_WEIGHTS, toString(safeGet(r, Question.Stage))), Num(0))

\* if(assignmentProvided){inc+=25; ...duration ladder...}  (78-85)
assignmentStep(v, r) ==
  IF assignmentProvided(safeGet(r, Question.Assignment))
    THEN AddPenalty(Plus(v, Num(25)), durationPenalty(textOf(r, Question.Duration)))
    ELSE v

\* if(/^\s*no\b/i.test(paid))inc+=30  (86-87)
paidStep(v, paid) == AddIf(v, test(RE_startsNo, paid), 30)

\* the feedback rule (88-90): /no[, ]*no feedback/i, /no feedback/i, /vague/i
feedbackStep(v, feedback) ==
  IF \/ test(Lit(<<"n","o">>) \o <<Star({",", " "})>> \o Lit(<<"n","o"," ","f","e","e","d","b","a","c","k">>), feedback)
     \/ test(RE_noFeedback, feedback)
    THEN Plus(v, Num(30))
    ELSE AddIf(v, test(RE_vague, feedback), 10)

\* if(/^\s*no\b/i.test(receipt))inc+=10  (91-92)
receiptStep(v, receipt) == AddIf(v, test(RE_startsNo, receipt), 10)

\* the follow-up rule (93-95): /no response/i, /vague excuse/i, /vague/i
followupStep(v, followup) ==
  IF test(RE_noResponse, followup) THEN Plus(v, Num(15))
  ELSE AddIf(v, test(Lit(<<"v","a","g","u","e"," ","e","x","c","u","s","e">>), followup) \/ test(RE_vague, followup), 8)

\* the wait ladder (96-100)
waitStep(v, wait) == AddPenalty(v, waitPenalty(wait))

\* the rejection rule (101-102): /no[, ]*complete silence/i,
\* /no, complete silence/i, /^\s*no\b/i
rejectionStep(v, rej) ==
  AddIf(v,
        \/ test(Lit(<<"n","o">>) \o <<Star({",", " "})>> \o Lit(<<"c","o","m","p","l","e","t","e"," ","s","i","l","e","n","c","e">>), rej)
        \/ test(Lit(<<"n","o",","," ","c","o","m","p","l","e","t","e"," ","s","i","l","e",
                      "n","c","e">>), rej)
        \/ test(RE_startsNo, rej),
        40)

\* let inc=0; ... return inc;
reportIncrement(r) ==
  rejectionStep(
    waitStep(
      followupStep(
        receiptStep(
          feedbackStep(
            paidStep(
              assignmentStep(Plus(Num(0), stagePenalty(r)), r),
              textOf(r, Question.Paid)),
            textOf(r, Question.Feedback)),
          textOf(r, Question.Receipt)),
        textOf(r, Question.Followup)),
      textOf(r, Question.Wait)),
    textOf(r, Question.Rejection))

(***************************************************************************)
(* The per-employer fold -- src/src/index.js 190-248                       *)
(***************************************************************************)

\* /^\s*yes\b/i
RE_startsYes == <<Bol, Star(WhiteSpace)>> \o Lit(<<"y","e","s">>) \o <<WordBoundary>>

\* o[k] = v
SetProp(o, k, v) ==
  IF HasOwn(o, k)
    THEN [i \in 1..Len(o) |-> IF o[i][1] = k THEN <<k, v>> ELSE o[i]]
    ELSE Append(o, <<k, v>>)

\* The stats object of lines 190-211 (scalar members).
newStats ==
  [ sumIncrements |-> Num(0),
    stageCounts |-> <<>>,
    assignmentGivenCount |-> 0,
    unpaidCount |-> 0,
    receiptYesCount |-> 0,
    feedbackYesCount |-> 0,
    feedbackNoCount |-> 0,
    followupNoResponseCount |-> 0,
    followupVagueCount |-> 0,
    officialRejectionCount |-> 0,
    aiScreeningCount |-> 0,
    applyAgainYesCount |-> 0,
    recommendYesCount |-> 0 ]

Bump(n, cond) == IF cond THEN n + 1 ELSE n

\* const feedbackNo / feedbackYes of the loop (232-236)
feedbackIsNo(feedback) == test(RE_startsNo, feedback) \/ test(RE_noFeedback, feedback)
feedbackIsYes(feedback) ==
  /\ ~feedbackIsNo(feedback)
  /\ test(RE_startsYes, feedback) \/ test(Lit(<<"y","e","s">>), feedback)
  /\ ~test(RE_vague, feedback)

\* stats.stageCounts[stage]=(stats.stageCounts[stage]||0)+1
countUp(counts, k) == SetProp(counts, k, Plus(Or(Get(counts, k), Num(0)), Num(1)))

\* assignment given: an answer that is not "no assignments required"
assignmentGiven(assignment) ==
  /\ Truthy(assignment)
  /\ ~test(RE_noAssignmentsRequired, toString(assignment))

\* follow-up answered with a vague excuse (and not "no response")
followupIsVague(followup) == ~test(RE_noResponse, followup) /\ test(RE_vague, followup)

\* official rejection received
rejectionIsOfficial(rej) == test(RE_startsYes, rej) \/ test(Lit(<<"f","o","r","m","a","l"," ","e","m","a","i","l">>), rej)

\* One turn of the loop of lines 213-248.
foldReport(st, r) ==
  [ sumIncrements |-> Plus(st.sumIncrements, reportIncrement(r)),
    stageCounts |->
      countUp(st.stageCounts, toString(Or(safeGet(r, Question.Stage), Str(<<>>)))),
    assignmentGivenCount |->
      Bump(st.assignmentGivenCount,
           assignmentGiven(Or(Or(safeGet(r, Question.Assignment),
                                 safeGet(r, Question.OtherAssignment)), Str(<<>>)))),
    unpaidCount |-> Bump(st.unpaidCount, test(RE_startsNo, textOf(r, Question.Paid))),
    receiptYesCount |->
      Bump(st.receiptYesCount, test(RE_startsYes, textOf(r, Question.Receipt))),
    feedbackYesCount |->
      Bump(st.feedbackYesCount, feedbackIsYes(textOf(r, Question.Feedback))),
    feedbackNoCount |->
      Bump(st.feedbackNoCount, feedbackIsNo(textOf(r, Question.Feedback))),
    followupNoResponseCount |->
      Bump(st.followupNoResponseCount, test(RE_noResponse, textOf(r, Question.Followup))),
    followupVagueCount |->
      Bump(st.followupVagueCount, followupIsVague(textOf(r, Question.Followup))),
    officialRejectionCount |->
      Bump(st.officialRejectionCount, rejectionIsOfficial(textOf(r, Question.Rejection))),
    aiScreeningCount |->
      Bump(st.aiScreeningCount, test(RE_startsYes, textOf(r, Question.AiScreening))),
    applyAgainYesCount |->
      Bump(st.applyAgainYesCount, test(RE_startsYes, textOf(r, Question.ApplyAgain))),
    recommendYesCount |->
      Bump(st.recommendYesCount, test(RE_startsYes, textOf(r, Question.Recommend))) ]

\* for(const r of rows){...}
RECURSIVE foldRows(_, _)
foldRows(st, rows) ==
  IF rows = <<>> THEN st ELSE foldRows(foldReport(st, Head(rows)), Tail(rows))

(***************************************************************************)
(* The score -- src/src/index.js 59-61, 276-280.  Increments are integers, *)
(* so the quotients are kept exact as <<numerator, denominator>>; on every *)
(* sum that stays below the clamp the double arithmetic of the job rounds  *)
(* to the same integer, and above it both clamp to 999.                    *)
(***************************************************************************)
Max2(a, b) == IF a >= b THEN a ELSE b
Min2(a, b) == IF a <= b THEN a ELSE b

\* clamp(n,a=0,b=999)
clamp(n, a, b) == Max2(a, Min2(b, n))

\* Math.round of a non-negative quotient: halves go up.
MathRound(q) == (2 * q[1] + q[2]) \div (2 * q[2])

\* The mutant of damping: no damping at all.
damping_none(N) == <<1, 1>>

\* const damping=N/(N+1)
damping(N) == <<N, N + 1>>

\* const normalized_increment=sum_increments*damping
normalized_increment(S, N) == <<S * damping(N)[1], damping(N)[2]>>

\* const raw_score=500+normalized_increment
raw_score(S, N) ==
  <<500 * normalized_increment(S, N)[2] + normalized_increment(S, N)[1],
    normalized_increment(S, N)[2]>>

\* const ghostScore=clamp(Math.round(raw_score),0,999) ; a sum that is not a
\* number makes every step NaN, and Math.max / Math.min hand NaN through.
ghostScore(sum_increments, N) ==
  IF toNumber(sum_increments).t = "number"
    THEN Num(clamp(MathRound(raw_score(toNumber(sum_increments).n, N)), 0, 999))
    ELSE NaN

\* The payload of lines 299-330 (the members derived so far).
payloadFrom(companyKey, companyName, N, st) ==
  [ CompanyKey |-> companyKey,
    CompanyName |-> companyName,
    ReportsCount |-> N,
    SumIncrements |-> toNumber(st.sumIncrements),
    GhostScore |-> ghostScore(st.sumIncrements, N),
    AssignmentGivenCount |-> st.assignmentGivenCount,
    UnpaidAssignmentCount |-> st.unpaidCount,
    ReceiptConfirmedCount |-> st.receiptYesCount,
    FeedbackYesCount |-> st.feedbackYesCount,
    FeedbackNoCount |-> st.feedbackNoCount,
    FollowupNoResponseCount |-> st.followupNoResponseCount,
    FollowupVagueCount |-> st.followupVagueCount,
    OfficialRejectionCount |-> st.officialRejectionCount,
    AiScreeningCount |-> st.aiScreeningCount,
    ApplyAgainYesCount |-> st.applyAgainYesCount,
    RecommendYesCount |-> st.recommendYesCount ]

\* One turn of the loop of main up to the payload: fold the rows, derive.
payloadOf(companyKey, companyName, rows) ==
  payloadFrom(companyKey, companyName, Len(rows), foldRows(newStats, rows))

\* pct(count,total) -- src/src/index.js 50-53, in tenths of a percent:
\* Math.round((count/total)*1000)/10 is a whole number of tenths.
pct(count, total) ==
  IF total = 0 THEN 0 ELSE MathRound(<<count * 1000, total>>)

(***************************************************************************)
(* calculateConfidence -- src/src/index.js 54-58.  The quotient            *)
(* Math.log10(x)/Math.log10(11) is kept exact as the record of its         *)
(* argument x >= 1: the quotient is 0 for x = 1, 1 for x = 11, and grows   *)
(* with x, so comparing two quotients is comparing their arguments.        *)
(***************************************************************************)
LogRatio(x) == [log11of |-> x]

\* The mutant of calculateConfidence: the quotient is not capped at 1.
calculateConfidence_uncapped(N) == IF N = 0 THEN LogRatio(1) ELSE LogRatio(N + 1)

\* if(!N)return 0; return Math.min(1,Math.max(0,val))  -- 0 is the quotient
\* of 1, 1 the quotient of 11.
calculateConfidence(N) ==
  IF N = 0 THEN LogRatio(1)
  ELSE LogRatio(Min2(11, Max2(1, N + 1)))

(***************************************************************************)
(* topNFromCounts -- src/src/index.js 43-46, and the frequency tables it   *)
(* reads (250-260).                                                        *)
(***************************************************************************)
\* A key that is an array index ("0", "7", "10": a canonical decimal below
\* 2^32 - 1): an object lists such keys first, in ascending numeric order.
IsArrayIndex(k) ==
  /\ IsDecimal(k)
  /\ Len(k) = 1 \/ k[1] # "0"
  /\ Len(k) <= 9

\* Object.entries(o): the array-index keys in ascending order, then the
\* other keys in the order they were added.
RECURSIVE AscendingFrom(_)
AscendingFrom(pairs) ==
  IF pairs = <<>> THEN <<>>
  ELSE LET least == CHOOSE i \in 1..Len(pairs) :
                      \A j \in 1..Len(pairs) :
                        ParseDecimal(pairs[i][1]) <= ParseDecimal(pairs[j][1])
       IN  <<pairs[least]>>
             \o AscendingFrom(SelectSeq(pairs, LAMBDA p : p # pairs[least]))
ObjectEntries(o) ==
  AscendingFrom(SelectSeq(o, LAMBDA p : IsArrayIndex(p[1])))
    \o SelectSeq(o, LAMBDA p : ~IsArrayIndex(p[1]))

\* .sort((a,b)=>b[1]-a[1]) : a stable sort by descending count -- each entry
\* goes behind the entries that count at least as much.
RECURSIVE SortByCount(_, _)
SortByCount(sorted, entries) ==
  IF entries = <<>> THEN sorted
  ELSE LET e == Head(entries)
           ahead == {i \in 1..Len(sorted) : sorted[i][2].n >= e[2].n}
           at == IF ahead = {} THEN 0 ELSE CHOOSE i \in ahead : \A j \in ahead : j <= i
       IN  SortByCount(SubSeq(sorted, 1, at) \o <<e>> \o SubSeq(sorted, at + 1, Len(sorted)),
                       Tail(entries))

\* topNFromCounts(counts,n=3)
topNFromCounts(counts, n) ==
  LET kept == SelectSeq(ObjectEntries(counts), LAMBDA p : p[1] # <<>>)
      sorted == SortByCount(<<>>, kept)
  IN  [i \in 1..Min2(n, Len(sorted)) |-> sorted[i][1]]

\* if(v)counts[v]=(counts[v]||0)+1, for the values of an employer's reports
\* in the order of the reports.
RECURSIVE tally(_, _)
tally(counts, values) ==
  IF values = <<>> THEN counts
  ELSE tally(IF Head(values) # <<>> THEN countUp(counts, Head(values)) ELSE counts,
             Tail(values))

(***************************************************************************)
(* The date bounds of an employer -- src/src/index.js 210-211, 268-273.    *)
(***************************************************************************)
\* new Date(text): a date in the form YYYY-MM-DD has a time value, kept as
\* the number YYYYMMDD, which orders the dates as the time value does; any
\* other text gives an Invalid Date, whose time value is NaN.
NewDate(v) ==
  LET s == toString(v)
      digits == SubSeq(s, 1, 4) \o SubSeq(s, 6, 7) \o SubSeq(s, 9, 10)
  IN  [ t |-> "date",
        time |-> IF Len(s) = 10 /\ s[5] = "-" /\ s[8] = "-" /\ IsDecimal(digits)
                   THEN Num(ParseDecimal(digits)) ELSE NaN ]

\* a<b for two dates: the time values are compared, and a comparison with
\* NaN is false.
DateBefore(a, b) ==
  a.time.t = "number" /\ b.time.t = "number" /\ a.time.n < b.time.n

\* Lines 268-273 for one report, on the firstDate and lastDate of stats.  A
\* Date is an object and so truthy, an Invalid Date too.
foldDate(bounds, r) ==
  LET created == Or(Or(Or(Get(r, <<"_","c","r","e","a","t","e","d","_","a","t">>), Get(r, <<"c","r","e","a","t","e","d","A","t">>)),
                       Get(r, <<"c","r","e","a","t","e","d","_","a","t">>)),
                    Get(r, <<"c","r","e","a","t","e","d">>))
      d == NewDate(created)
  IN  IF ~Truthy(created) THEN bounds
      ELSE [ firstDate |-> IF ~Truthy(bounds.firstDate) \/ DateBefore(d, bounds.firstDate)
                             THEN d ELSE bounds.firstDate,
             lastDate |-> IF ~Truthy(bounds.lastDate) \/ DateBefore(bounds.lastDate, d)
                            THEN d ELSE bounds.lastDate ]

(***************************************************************************)
(* The job is modelled part by part; the variables of a part that is not   *)
(* driven stay at rest.                                                    *)
(***************************************************************************)
RunAtRest ==
  /\ variant = "none" /\ DRY_RUN = Undefined /\ PAGE_SIZE = Undefined
  /\ sourceTable = <<>> /\ targetTable = <<>> /\ pc = "idle"
  /\ offset = Num(0) /\ collected = <<>> /\ allRows = <<>> /\ groups = <<>>
  /\ targetCache = <<>> /\ idx = 0 /\ reads = <<>> /\ calls = <<>>
NormAtRest == name = <<>> /\ key = <<>> /\ rekey = <<>> /\ npc = "idle"
IncAtRest == report = <<>> /\ inc = Num(0) /\ ipc = "idle"
ScoreAtRest ==
  /\ groupRows = <<>> /\ stats = <<>> /\ reportsCount = 0 /\ incs = [n |-> 0, numeric |-> TRUE]
  /\ score = Num(0) /\ spc = "idle"
FnAtRest == fn = "none" /\ args = <<>> /\ result = <<>> /\ fpc = "idle"

(***************************************************************************)
(* The tables and the listing endpoint                                     *)
(***************************************************************************)
\* All sequences over A of length at most n.
RECURSIVE SeqsUpTo(_, _)
SeqsUpTo(A, n) ==
  IF n = 0 THEN {<<>>}
  ELSE LET S == SeqsUpTo(A, n - 1)
       IN  S \cup {Append(s, c) : s \in {t \in S : Len(t) = n - 1}, c \in A}

\* A row from <<key, value>> pairs; a pair whose value is undefined is a
\* member the row does not have.
Row(pairs) == SelectSeq(pairs, LAMBDA p : p[2] # Undefined)

\* The value a destructuring default leaves: const {X = d} = process.env
Default(v, d) == IF v = Undefined THEN d ELSE v

\* GET .../records?limit=&offset= : the two parameters travel as text; the
\* endpoint answers with the rows from offset on, at most limit of them.
Page(table, limit, off) ==
  LET l == ParseDecimal(toString(limit))
      o == ParseDecimal(toString(off))
  IN  SubSeq(table, o + 1, Min2(Len(table), o + l))

A_true == <<"t","r","u","e">>

(***************************************************************************)
(* "sync" -- src/src/index.js 1-347                                        *)
(***************************************************************************)
\* const limit=Number(PAGE_SIZE)||200   (PAGE_SIZE = 200 by default)
limit == Or(toNumber(Default(PAGE_SIZE, Num(200))), Num(200))

\* The mutant of dryRun: the flag is never honoured.
dryRun_never == FALSE

\* DRY_RUN.toLowerCase()==="true"      (DRY_RUN = "true" by default)
dryRun == toLowerCase(Default(DRY_RUN, Str(A_true)).s) = A_true

\* getRowId: the first of these members that is neither null nor undefined.
RowIdFields == << Field.id, <<"I","D">>, <<"i","n","s","e","r","t","I","d">>, <<"r","o","w","i","d">>, <<"_","i","d">>, <<"r","o","w","_","i","d">> >>
getRowId(row) ==
  LET hits == {i \in 1..Len(RowIdFields) : ~IsNullish(Get(row, RowIdFields[i]))}
  IN  IF hits = {} THEN Null ELSE Get(row, RowIdFields[Min(hits)])

\* The display name with the two fields in the other order.
displayName_companyNameFirst(row) ==
  toString(Or(Or(safeGet(row, Field.CompanyName), safeGet(row, Field.Title)),
              Str(unknown)))

\* main 179: (safeGet(row,"Title")||safeGet(row,"Company Name")||"unknown")
\* .toString()
displayName(row) ==
  toString(Or(Or(safeGet(row, Field.Title), safeGet(row, Field.CompanyName)),
              Str(unknown)))

\* The grouping loop of main (177-183).  groups is an object literal: for a
\* key that names a member of Object.prototype, groups[key] is that inherited
\* member, no group is made, and groups[key].rows.push throws a TypeError.
RECURSIVE groupFrom(_, _)
groupFrom(g, rows) ==
  IF rows = <<>> THEN [threw |-> FALSE, groups |-> g]
  ELSE LET row == Head(rows)
           companyName == displayName(row)
           k == normalizeCompanyKey(companyName)
       IN  IF HasOwn(g, k)
             THEN groupFrom(
                    SetProp(g, k, [OwnValue(g, k) EXCEPT !.rows = Append(@, row)]),
                    Tail(rows))
           ELSE IF Truthy(Get(g, k))
             THEN [threw |-> TRUE, groups |-> g]
           ELSE groupFrom(
                  Append(g, <<k, [companyName |-> companyName, rows |-> <<row>>]>>),
                  Tail(rows))

\* buildTargetCache (134-144), after the listing: the loop over the rows,
\* map[key]={row:r,id}, from the map made so far.
RECURSIVE buildTargetCache(_, _)
buildTargetCache(map, rows) ==
  IF rows = <<>> THEN map
  ELSE LET r == Head(rows)
           keyRaw == Or(Or(safeGet(r, Field.CompanyKey), safeGet(r, Field.CompanyName)),
                        Str(<<>>))
           k == normalizeCompanyKey(toString(keyRaw))
       IN  buildTargetCache(
             SetProp(map, k, [t |-> "entry", row |-> r, id |-> getRowId(r)]),
             Tail(rows))

\* The payload main builds for the employer the loop stands at.
payloadAt(i) ==
  payloadOf(groups[i][1], groups[i][2].companyName, groups[i][2].rows)

\* upsertCompany 147: the key the payload is looked up under.
resolvedKeyAt(i) ==
  normalizeCompanyKey(
    toString(Or(Or(Str(groups[i][1]), Str(groups[i][2].companyName)), Str(<<>>))))

\* upsertCompany 153: if(existing&&existing.id)
hasRowId(existing) ==
  /\ Truthy(existing)
  /\ existing.t = "entry"
  /\ Truthy(existing.id)

\* The mutating call upsertCompany sends for a payload (155, 164).
upsertCall(payload, k, existing, i, ok) ==
  [ method |-> IF hasRowId(existing) THEN "PATCH" ELSE "POST",
    id |-> IF hasRowId(existing) THEN existing.id ELSE Undefined,
    key |-> k,
    group |-> i,
    payload |-> payload,
    ok |-> ok ]

\* upsertCompany 147-148 for the employer the loop stands at:
\* const existing=targetCache[key]||null
writeFor(i, ok) ==
  upsertCall(payloadAt(i), resolvedKeyAt(i),
             Or(Get(targetCache, resolvedKeyAt(i)), Null), i, ok)

\* One turn of the loop of fetchAllRows (109-119); after the last page of the
\* source main groups the rows and buildTargetCache starts its own listing,
\* after the last page of the target the snapshot is built.
SyncFetchPage ==
  /\ variant = "sync"
  /\ pc \in {"fetchSource", "fetchTarget"}
  /\ LET table == IF pc = "fetchSource" THEN sourceTable ELSE targetTable
         data == Page(table, limit, offset)
         all == collected \o data
     IN  /\ reads' = Append(reads, [table |-> pc, limit |-> limit,
                                    offset |-> offset, ok |-> TRUE])
         /\ IF Len(data) < limit.n
              THEN /\ offset' = Num(0)
                   /\ collected' = <<>>
                   /\ IF pc = "fetchSource"
                        THEN /\ allRows' = all
                             /\ groups' = groupFrom(<<>>, all).groups
                             /\ pc' = IF groupFrom(<<>>, all).threw
                                        THEN "fatal" ELSE "fetchTarget"
                             /\ UNCHANGED <<targetCache, idx>>
                        ELSE /\ targetCache' = buildTargetCache(<<>>, all)
                             /\ idx' = 1
                             /\ pc' = "loop"
                             /\ UNCHANGED <<allRows, groups>>
              ELSE /\ offset' = Plus(offset, limit)
                   /\ collected' = all
                   /\ UNCHANGED <<pc, allRows, groups, targetCache, idx>>
  /\ UNCHANGED <<variant, DRY_RUN, PAGE_SIZE, sourceTable, targetTable, calls>>
  /\ UNCHANGED <<normVars, incVars, scoreVars, fnVars>>

\* The request of line 111 is rejected (or answers with a status other than
\* 200): the error leaves main and main().catch ends the process (344-347).
SyncFetchFail ==
  /\ variant = "sync"
  /\ pc \in {"fetchSource", "fetchTarget"}
  /\ reads' = Append(reads, [table |-> pc, limit |-> limit,
                             offset |-> offset, ok |-> FALSE])
  /\ pc' = "fatal"
  /\ UNCHANGED <<variant, DRY_RUN, PAGE_SIZE, sourceTable, targetTable, offset,
                 collected, allRows, groups, targetCache, idx, calls>>
  /\ UNCHANGED <<normVars, incVars, scoreVars, fnVars>>

\* The mutant of SyncUpsert: a create that went through is entered into the
\* snapshot.
SyncUpsert_refreshing ==
  /\ variant = "sync"
  /\ pc = "loop"
  /\ idx <= Len(groups)
  /\ calls' = IF dryRun THEN calls ELSE Append(calls, writeFor(idx, TRUE))
  /\ targetCache' =
       IF ~dryRun /\ writeFor(idx, TRUE).method = "POST"
         THEN SetProp(targetCache, resolvedKeyAt(idx),
                      [t |-> "entry", row |-> <<>>, id |-> Num(99)])
         ELSE targetCache
  /\ idx' = idx + 1
  /\ UNCHANGED <<variant, DRY_RUN, PAGE_SIZE, sourceTable, targetTable, pc, offset,
                 collected, allRows, groups, reads>>
  /\ UNCHANGED <<normVars, incVars, scoreVars, fnVars>>

\* One turn of the loop of main (186-340) in which upsertCompany returns: in
\* a dry run before any call, else after its PATCH or POST was answered.
SyncUpsert ==
  /\ variant = "sync"
  /\ pc = "loop"
  /\ idx <= Len(groups)
  /\ calls' = IF dryRun THEN calls ELSE Append(calls, writeFor(idx, TRUE))
  /\ idx' = idx + 1
  /\ UNCHANGED <<variant, DRY_RUN, PAGE_SIZE, sourceTable, targetTable, pc, offset,
                 collected, allRows, groups, targetCache, reads>>
  /\ UNCHANGED <<normVars, incVars, scoreVars, fnVars>>

\* The mutant of SyncUpsertFail: the rejection is not caught in main.
SyncUpsertFail_uncaught ==
  /\ variant = "sync"
  /\ pc = "loop"
  /\ idx <= Len(groups)
  /\ ~dryRun
  /\ calls' = Append(calls, writeFor(idx, FALSE))
  /\ pc' = "fatal"
  /\ UNCHANGED <<variant, DRY_RUN, PAGE_SIZE, sourceTable, targetTable, offset,
                 collected, allRows, groups, targetCache, idx, reads>>
  /\ UNCHANGED <<normVars, incVars, scoreVars, fnVars>>

\* One turn of the loop of main in which the PATCH or POST is rejected:
\* upsertCompany logs and rethrows (158-161, 167-170), main catches, logs
\* and goes on with the next employer (337-339).
SyncUpsertFail ==
  /\ variant = "sync"
  /\ pc = "loop"
  /\ idx <= Len(groups)
  /\ ~dryRun
  /\ calls' = Append(calls, writeFor(idx, FALSE))
  /\ idx' = idx + 1
  /\ UNCHANGED <<variant, DRY_RUN, PAGE_SIZE, sourceTable, targetTable, pc, offset,
                 collected, allRows, groups, targetCache, reads>>
  /\ UNCHANGED <<normVars, incVars, scoreVars, fnVars>>

\* The loop is through: console.log("Finished GhostScore sync") (341).
SyncFinish ==
  /\ variant = "sync"
  /\ pc = "loop"
  /\ idx > Len(groups)
  /\ pc' = "finished"
  /\ UNCHANGED <<variant, DRY_RUN, PAGE_SIZE, sourceTable, targetTable, offset,
                 collected, allRows, groups, targetCache, idx, reads, calls>>
  /\ UNCHANGED <<normVars, incVars, scoreVars, fnVars>>

NextSync ==
  \/ SyncFetchPage
  \/ SyncFetchFail
  \/ SyncUpsert
  \/ SyncUpsertFail
  \/ SyncFinish

(***************************************************************************)
(* "aggregate" -- src/src/index.js 349-594                                 *)
(***************************************************************************)
\* const PAGE_SIZE = parseInt(process.env.PAGE_SIZE) || 100
PAGE_SIZE_aggregate == Or(toNumber(PAGE_SIZE), Num(100))

\* name?.toLowerCase().replace(/\s+/g,'-').replace(/[^a-z0-9\-]/g,'') || ''
slug(n) ==
  SelectSeq(HyphenateFrom(toLowerCase(n), 1),
            LAMBDA c : c \in {LowerCase[i] : i \in 1..26} \cup Digit \cup {"-"})

\* aggregateReports 401-441: companyMap is a Map, a row with an empty key is
\* skipped, reportsCount is counted up.
RECURSIVE aggregateFrom(_, _)
aggregateFrom(companyMap, rows) ==
  IF rows = <<>> THEN companyMap
  ELSE LET row == Head(rows)
           companyName ==
             toString(Or(Or(Get(row, Field.Title), Get(row, Field.CompanyName)), Str(<<>>)))
           companyKey == slug(companyName)
           old == OwnValue(companyMap, companyKey)
       IN  IF companyKey = <<>> THEN aggregateFrom(companyMap, Tail(rows))
           ELSE IF HasOwn(companyMap, companyKey)
             THEN aggregateFrom(
                    SetProp(companyMap, companyKey,
                            [old EXCEPT !.rows = Append(@, row)]),
                    Tail(rows))
           ELSE aggregateFrom(
                  Append(companyMap,
                         <<companyKey, [companyName |-> companyName, rows |-> <<row>>]>>),
                  Tail(rows))

\* The call upsertRow sends (561-573): POST .../upsert with the record; its
\* flag is the one the aggregate was created with (437, 552).
upsertRowCall(i, ok) ==
  [ method |-> "POST",
    id |-> Undefined,
    key |-> groups[i][1],
    group |-> i,
    payload |-> [ CompanyKey |-> groups[i][1],
                  CompanyName |-> groups[i][2].companyName,
                  ReportsCount |-> Len(groups[i][2].rows),
                  DataQualityFlag |-> Str(<<"o","k">>) ],
    ok |-> ok ]

\* One turn of the loop of fetchAllRows (370-383); an empty page or a short
\* page ends it, and main aggregates what was gathered.
AggregateFetchPage ==
  /\ variant = "aggregate"
  /\ pc = "fetchSource"
  /\ LET data == Page(sourceTable, PAGE_SIZE_aggregate, offset)
         rows == collected \o data
     IN  /\ reads' = Append(reads, [table |-> pc, limit |-> PAGE_SIZE_aggregate,
                                    offset |-> offset, ok |-> TRUE])
         /\ IF Len(data) = 0 \/ Len(data) < PAGE_SIZE_aggregate.n
              THEN /\ allRows' = rows
                   /\ groups' = aggregateFrom(<<>>, rows)
                   /\ idx' = 1
                   /\ pc' = "loop"
                   /\ UNCHANGED <<offset, collected>>
              ELSE /\ offset' = Plus(offset, PAGE_SIZE_aggregate)
                   /\ collected' = rows
                   /\ UNCHANGED <<allRows, groups, idx, pc>>
  /\ UNCHANGED <<variant, DRY_RUN, PAGE_SIZE, sourceTable, targetTable,
                 targetCache, calls>>
  /\ UNCHANGED <<normVars, incVars, scoreVars, fnVars>>

\* The request is rejected: the catch of 384-387 logs and breaks, and
\* fetchAllRows returns the rows of the pages before.
AggregateFetchFail ==
  /\ variant = "aggregate"
  /\ pc = "fetchSource"
  /\ reads' = Append(reads, [table |-> pc, limit |-> PAGE_SIZE_aggregate,
                             offset |-> offset, ok |-> FALSE])
  /\ allRows' = collected
  /\ groups' = aggregateFrom(<<>>, collected)
  /\ idx' = 1
  /\ pc' = "loop"
  /\ UNCHANGED <<variant, DRY_RUN, PAGE_SIZE, sourceTable, targetTable, offset,
                 collected, targetCache, calls>>
  /\ UNCHANGED <<normVars, incVars, scoreVars, fnVars>>

\* One turn of the loop of main (584-586); upsertRow catches a rejection.
AggregateUpsertRow ==
  /\ variant = "aggregate"
  /\ pc = "loop"
  /\ idx <= Len(groups)
  /\ \E ok \in BOOLEAN : calls' = Append(calls, upsertRowCall(idx, ok))
  /\ idx' = idx + 1
  /\ UNCHANGED <<variant, DRY_RUN, PAGE_SIZE, sourceTable, targetTable, pc, offset,
                 collected, allRows, groups, targetCache, reads>>
  /\ UNCHANGED <<normVars, incVars, scoreVars, fnVars>>

AggregateFinish ==
  /\ variant = "aggregate"
  /\ pc = "loop"
  /\ idx > Len(groups)
  /\ pc' = "finished"
  /\ UNCHANGED <<variant, DRY_RUN, PAGE_SIZE, sourceTable, targetTable, offset,
                 collected, allRows, groups, targetCache, idx, reads, calls>>
  /\ UNCHANGED <<normVars, incVars, scoreVars, fnVars>>

(***************************************************************************)
(* "insert" -- src/unnamed/part_000 1-117                                  *)
(***************************************************************************)
\* const { PAGE_SIZE = 200 } = process.env : a text when the variable is set
PAGE_SIZE_insert == Default(PAGE_SIZE, Num(200))

\* DRY_RUN === "true"                 (DRY_RUN = "true" by default)
dryRun_insert == Default(DRY_RUN, Str(A_true)) = Str(A_true)

\* calculateGhostScore (70-92)
calculateGhostScore(record) ==
  LET q1 == Get(record, <<"q","u","e","s","t","i","o","n","1">>)
      q2 == Get(record, <<"q","u","e","s","t","i","o","n","2">>)
  IN  500 + (IF q1 = Str(<<"Y","e","s">>) THEN 50 ELSE -20)
          + (IF Truthy(q2) /\ toNumber(q2).t = "number" /\ toNumber(q2).n > 5
               THEN 100 ELSE 0)

\* The call insertRows sends for the i-th scored row (63).
insertCall(i, ok) ==
  [ method |-> "POST",
    id |-> Undefined,
    key |-> <<>>,
    group |-> i,
    payload |-> [ghostScore |-> calculateGhostScore(allRows[i])],
    ok |-> ok ]

\* One turn of the loop of fetchAllRows (36-50).  offset += PAGE_SIZE adds
\* numbers only while PAGE_SIZE is the default; a PAGE_SIZE from the
\* environment is a text and is appended to the offset.
InsertFetchPage ==
  /\ variant = "insert"
  /\ pc = "fetchSource"
  /\ LET data == Page(sourceTable, PAGE_SIZE_insert, offset)
         rows == collected \o data
     IN  /\ reads' = Append(reads, [table |-> pc, limit |-> PAGE_SIZE_insert,
                                    offset |-> offset, ok |-> TRUE])
         /\ IF Len(data) < toNumber(PAGE_SIZE_insert).n
              THEN /\ allRows' = rows
                   /\ idx' = 1
                   /\ pc' = "loop"
                   /\ UNCHANGED <<offset, collected>>
              ELSE /\ offset' = Plus(offset, PAGE_SIZE_insert)
                   /\ collected' = rows
                   /\ UNCHANGED <<allRows, idx, pc>>
  /\ UNCHANGED <<variant, DRY_RUN, PAGE_SIZE, sourceTable, targetTable, groups,
                 targetCache, calls>>
  /\ UNCHANGED <<normVars, incVars, scoreVars, fnVars>>

\* The request is rejected: the catch of main ends the process (111-114).
InsertFetchFail ==
  /\ variant = "insert"
  /\ pc = "fetchSource"
  /\ reads' = Append(reads, [table |-> pc, limit |-> PAGE_SIZE_insert,
                             offset |-> offset, ok |-> FALSE])
  /\ pc' = "fatal"
  /\ UNCHANGED <<variant, DRY_RUN, PAGE_SIZE, sourceTable, targetTable, offset,
                 collected, allRows, groups, targetCache, idx, calls>>
  /\ UNCHANGED <<normVars, incVars, scoreVars, fnVars>>

\* One turn of the loop of insertRows (58-65) that goes through.
InsertRow ==
  /\ variant = "insert"
  /\ pc = "loop"
  /\ idx <= Len(allRows)
  /\ calls' = IF dryRun_insert THEN calls ELSE Append(calls, insertCall(idx, TRUE))
  /\ idx' = idx + 1
  /\ UNCHANGED <<variant, DRY_RUN, PAGE_SIZE, sourceTable, targetTable, pc, offset,
                 collected, allRows, groups, targetCache, reads>>
  /\ UNCHANGED <<normVars, incVars, scoreVars, fnVars>>

\* The POST of line 63 is rejected: nothing in insertRows catches it, the
\* catch of main ends the process.
InsertRowFail ==
  /\ variant = "insert"
  /\ pc = "loop"
  /\ idx <= Len(allRows)
  /\ ~dryRun_insert
  /\ calls' = Append(calls, insertCall(idx, FALSE))
  /\ pc' = "fatal"
  /\ UNCHANGED <<variant, DRY_RUN, PAGE_SIZE, sourceTable, targetTable, offset,
                 collected, allRows, groups, targetCache, idx, reads>>
  /\ UNCHANGED <<normVars, incVars, scoreVars, fnVars>>

InsertFinish ==
  /\ variant = "insert"
  /\ pc = "loop"
  /\ idx > Len(allRows)
  /\ pc' = "finished"
  /\ UNCHANGED <<variant, DRY_RUN, PAGE_SIZE, sourceTable, targetTable, offset,
                 collected, allRows, groups, targetCache, idx, reads, calls>>
  /\ UNCHANGED <<normVars, incVars, scoreVars, fnVars>>

(***************************************************************************)
(* "stream" -- src/unnamed/part_000 119-210.  Here collected is the page   *)
(* at hand (data) and allRows the rows of all pages seen so far.           *)
(***************************************************************************)
\* const PAGE_SIZE = Number(process.env.PAGE_SIZE) || 100
PAGE_SIZE_stream == Or(toNumber(PAGE_SIZE), Num(100))


\* transformSourceToTarget (142-175): the two members that identify the row.
transformSourceToTarget(src) ==
  [ CompanyKey |->
      slug(toString(Or(Or(Get(src, Field.Website), Get(src, Field.Title)), Str(<<>>)))),
    CompanyName |-> toString(Or(Get(src, Field.Title), Str(<<>>))),
    DataQualityFlag |-> Str(<<"o","k">>) ]

\* GET ...?filter={"Company Key":{"_eq":...}} : the rows with that key.
rowsWithKey(table, k) == SelectSeq(table, LAMBDA r : Get(r, Field.CompanyKey) = Str(k))

\* The call upsertRow sends (182-189).
streamCall(i, ok) ==
  LET data == transformSourceToTarget(collected[i])
      existing == rowsWithKey(targetTable, data.CompanyKey)
  IN  [ method |-> IF Len(existing) > 0 THEN "PATCH" ELSE "POST",
        id |-> IF Len(existing) > 0 THEN Get(existing[1], Field.id) ELSE Undefined,
        key |-> data.CompanyKey,
        group |-> Len(allRows) - Len(collected) + i,
        payload |-> data,
        ok |-> ok ]

\* The row a POST that went through leaves in the table.
createdRow(data, table) ==
  Row(<< <<Field.CompanyKey, Str(data.CompanyKey)>>,
         <<Field.CompanyName, Str(data.CompanyName)>>,
         <<Field.id, Num(Len(table) + 10)>> >>)

\* const data = await fetchRows(SOURCE_TABLE, offset) (199-200)
StreamFetchRows ==
  /\ variant = "stream"
  /\ pc = "fetchSource"
  /\ reads' = Append(reads, [table |-> pc, limit |-> PAGE_SIZE_stream,
                             offset |-> offset, ok |-> TRUE])
  /\ collected' = Page(sourceTable, PAGE_SIZE_stream, offset)
  /\ allRows' = allRows \o collected'
  /\ idx' = 1
  /\ pc' = "loop"
  /\ UNCHANGED <<variant, DRY_RUN, PAGE_SIZE, sourceTable, targetTable, offset,
                 groups, targetCache, calls>>
  /\ UNCHANGED <<normVars, incVars, scoreVars, fnVars>>

\* fetchRows is rejected: nothing catches it, the process ends.
StreamFetchFail ==
  /\ variant = "stream"
  /\ pc = "fetchSource"
  /\ reads' = Append(reads, [table |-> pc, limit |-> PAGE_SIZE_stream,
                             offset |-> offset, ok |-> FALSE])
  /\ pc' = "fatal"
  /\ UNCHANGED <<variant, DRY_RUN, PAGE_SIZE, sourceTable, targetTable, offset,
                 collected, allRows, groups, targetCache, idx, calls>>
  /\ UNCHANGED <<normVars, incVars, scoreVars, fnVars>>

\* One turn of the loop of 201-204: the lookup is answered, then the PATCH
\* or POST is answered or rejected; a rejection is caught (190-192).
StreamUpsertRow ==
  /\ variant = "stream"
  /\ pc = "loop"
  /\ idx <= Len(collected)
  /\ \E ok \in BOOLEAN :
       /\ calls' = Append(calls, streamCall(idx, ok))
       /\ targetTable' =
            IF ok /\ streamCall(idx, ok).method = "POST"
              THEN Append(targetTable,
                          createdRow(transformSourceToTarget(collected[idx]),
                                     targetTable))
              ELSE targetTable
  /\ idx' = idx + 1
  /\ UNCHANGED <<variant, DRY_RUN, PAGE_SIZE, sourceTable, pc, offset, collected,
                 allRows, groups, targetCache, reads>>
  /\ UNCHANGED <<normVars, incVars, scoreVars, fnVars>>

\* One turn of the loop in which the lookup of line 181 is rejected: the
\* catch logs, no call is sent for the row.
StreamLookupFail ==
  /\ variant = "stream"
  /\ pc = "loop"
  /\ idx <= Len(collected)
  /\ reads' = Append(reads, [table |-> "lookup", limit |-> Undefined,
                             offset |-> Undefined, ok |-> FALSE])
  /\ idx' = idx + 1
  /\ UNCHANGED <<variant, DRY_RUN, PAGE_SIZE, sourceTable, targetTable, pc, offset,
                 collected, allRows, groups, targetCache, calls>>
  /\ UNCHANGED <<normVars, incVars, scoreVars, fnVars>>

\* offset += rowsFetched; } while (rowsFetched === PAGE_SIZE)  (205-207)
StreamPageDone ==
  /\ variant = "stream"
  /\ pc = "loop"
  /\ idx > Len(collected)
  /\ offset' = Plus(offset, Num(Len(collected)))
  /\ pc' = IF Num(Len(collected)) = PAGE_SIZE_stream THEN "fetchSource" ELSE "finished"
  /\ UNCHANGED <<variant, DRY_RUN, PAGE_SIZE, sourceTable, targetTable, collected,
                 allRows, groups, targetCache, idx, reads, calls>>
  /\ UNCHANGED <<normVars, incVars, scoreVars, fnVars>>

(***************************************************************************)
(* A run: the environment, the two tables, and the job from its start      *)
(***************************************************************************)
MaxReports == 3
MaxTargetRows == 1

Variants == {"sync", "aggregate", "insert", "stream"}
DryRunSettings == {Undefined, Str(A_true), Str(<<"T","R","U","E">>), Str(<<"f","a","l","s","e">>)}
PageSizeSettings == {Undefined, Str(<<"1">>), Str(<<"2">>)}

\* Reports: titled "AB" (ghosted after a verbal offer), titled "ab_co", and
\* one without a company name.
SourceRows ==
  { Row(<< <<Field.Title, Str(<<"A","B">>)>>, <<Question.Stage, Str(S_AfterVerbalOffer)>> >>),
    Row(<< <<Field.Title, Str(<<"a","b","_","c","o">>)>> >>),
    Row(<< <<Question.Paid, Str(<<"N","o">>)>> >>) }

\* Target rows as an earlier run left them: "Ab" under the key "ab" with its
\* row identifier in id, the same with the identifier in Id, and "ab_co"
\* under the key "ab-co".
TargetRows ==
  { Row(<< <<Field.CompanyKey, Str(<<"a","b">>)>>, <<Field.CompanyName, Str(<<"A","b">>)>>,
           <<Field.id, Num(1)>> >>),
    Row(<< <<Field.CompanyKey, Str(<<"a","b">>)>>, <<Field.CompanyName, Str(<<"A","b">>)>>,
           <<Field.Id, Num(2)>> >>),
    Row(<< <<Field.CompanyKey, Str(<<"a","b","-","c","o">>)>>, <<Field.CompanyName, Str(<<"a","b","_","c","o">>)>>,
           <<Field.id, Num(3)>> >>) }

IsInjective(s) == \A i, j \in 1..Len(s) : i # j => s[i] # s[j]

Init ==
  /\ variant \in Variants
  /\ DRY_RUN \in IF variant \in {"sync", "insert"} THEN DryRunSettings ELSE {Undefined}
  /\ PAGE_SIZE \in PageSizeSettings
  /\ sourceTable \in SeqsUpTo(SourceRows, MaxReports)
  /\ targetTable \in IF variant \in {"sync", "stream"}
                       THEN {t \in SeqsUpTo(TargetRows, MaxTargetRows) : IsInjective(t)}
                       ELSE {<<>>}
  /\ pc = "fetchSource"
  /\ offset = Num(0)
  /\ collected = <<>>
  /\ allRows = <<>>
  /\ groups = <<>>
  /\ targetCache = <<>>
  /\ idx = 0
  /\ reads = <<>>
  /\ calls = <<>>
  /\ NormAtRest /\ IncAtRest /\ ScoreAtRest /\ FnAtRest

Next ==
  \/ SyncFetchPage
  \/ SyncFetchFail
  \/ SyncUpsert
  \/ SyncUpsertFail
  \/ SyncFinish
  \/ AggregateFetchPage
  \/ AggregateFetchFail
  \/ AggregateUpsertRow
  \/ AggregateFinish
  \/ InsertFetchPage
  \/ InsertFetchFail
  \/ InsertRow
  \/ InsertRowFail
  \/ InsertFinish
  \/ StreamFetchRows
  \/ StreamFetchFail
  \/ StreamUpsertRow
  \/ StreamLookupFail
  \/ StreamPageDone

Spec == Init /\ [][Next]_vars

\* The complete pipeline alone.  Every request is answered or rejected in
\* the end (the client has a timeout of 120 s), so a listing that is under
\* way goes on, the write loop takes its next turn, and the run finishes
\* after the last turn.  A turn of the write loop is told by what it does to
\* idx: it is the step of SyncUpsert or SyncUpsertFail.
InitSync == Init /\ variant = "sync"
LoopTurn == pc = "loop" /\ idx <= Len(groups) /\ idx' = idx + 1
FairSpecSync ==
  /\ InitSync
  /\ [][NextSync]_vars
  /\ WF_vars(SyncFetchFail \/ SyncFetchPage)
  /\ WF_idx(LoopTurn)
  /\ WF_vars(SyncFinish)

(***************************************************************************)
(* Harnesses.  Each specification below drives one part of the job; the    *)
(* variables of the other parts stay at rest.                              *)
(***************************************************************************)
(***************************************************************************)
(* Normalizer harness: every name of bounded length over a small alphabet  *)
(* is normalized, and its key is normalized again, as buildTargetCache and *)
(* upsertCompany do with a stored "Company Key".                           *)
(***************************************************************************)
MaxNameLen == 4
NameAlphabet == {"a", "c", "o", "C", "_", " ", "-", "U+00E9"}

InitNormalize ==
  /\ name \in SeqsUpTo(NameAlphabet, MaxNameLen)
  /\ key = <<>>
  /\ rekey = <<>>
  /\ npc = "start"
  /\ RunAtRest /\ IncAtRest /\ ScoreAtRest /\ FnAtRest

NormalizeName ==
  /\ npc = "start"
  /\ key' = normalizeCompanyKey(name)
  /\ npc' = "once"
  /\ UNCHANGED <<name, rekey, runVars, incVars, scoreVars, fnVars>>

NormalizeKey ==
  /\ npc = "once"
  /\ rekey' = normalizeCompanyKey(key)
  /\ npc' = "twice"
  /\ UNCHANGED <<name, key, runVars, incVars, scoreVars, fnVars>>

NextNormalize == NormalizeName \/ NormalizeKey

SpecNormalize == InitNormalize /\ [][NextNormalize]_vars

(***************************************************************************)
(* Increment harness: reportIncrement on every combination of answers.     *)
(***************************************************************************)
\* The answers tried for a question: none, or one of the texts.
Answers(texts) == {Undefined} \cup {Str(x) : x \in texts}

AnswersTo ==
  [ stage |-> Answers({<<"O","t","h","e","r">>, <<"c","o","n","s","t","r","u","c","t","o","r">>, S_AfterVerbalOffer}),
    assignment |-> Answers({<<"N","o"," ","a","s","s","i","g","n","m","e","n","t","s"," ","r","e",
                              "q","u","i","r","e","d">>, <<"T","a","k","e","-","h","o","m","e"," ","p","r","o","j","e","c",
                                                           "t">>}),
    duration |-> Answers({<<"5","U+2013","1","0"," ","h","o","u","r","s">>, <<"1","0","+"," ","h","o","u","r","s">>}),
    paid |-> Answers({<<"N","o">>, <<"N","o","t"," ","s","u","r","e">>}),
    feedback |-> Answers({<<"N","o",","," ","n","o"," ","f","e","e","d","b","a","c","k">>, <<"Y","e","s",","," ","b","u","t"," ","v","a","g","u","e">>}),
    receipt |-> Answers({<<"N","o">>}),
    followup |-> Answers({<<"Y","e","s",","," ","v","a","g","u","e"," ","e","x","c","u","s",
                            "e">>}),
    wait |-> Answers({<<"2","-","4"," ","w","e","e","k","s">>, <<"M","o","r","e"," ","t","h","a","n"," ","1"," ","m","o","n","t",
                                       "h">>}),
    rejection |-> Answers({<<"N","o",","," ","c","o","m","p","l","e","t","e"," ","s","i","l","e",
                             "n","c","e">>}) ]

InitIncrement ==
  /\ \E st \in AnswersTo.stage, as \in AnswersTo.assignment,
        du \in AnswersTo.duration, pa \in AnswersTo.paid,
        fe \in AnswersTo.feedback, rc \in AnswersTo.receipt,
        fo \in AnswersTo.followup, wa \in AnswersTo.wait,
        rj \in AnswersTo.rejection :
       report = Row(<< <<Question.Stage, st>>, <<Question.Assignment, as>>, <<Question.Duration, du>>,
                       <<Question.Paid, pa>>, <<Question.Feedback, fe>>, <<Question.Receipt, rc>>,
                       <<Question.Followup, fo>>, <<Question.Wait, wa>>, <<Question.Rejection, rj>> >>)
  /\ inc = Num(0)
  /\ ipc = "start"
  /\ RunAtRest /\ NormAtRest /\ ScoreAtRest /\ FnAtRest

Increment ==
  /\ ipc = "start"
  /\ inc' = reportIncrement(report)
  /\ ipc' = "done"
  /\ UNCHANGED <<report, runVars, normVars, scoreVars, fnVars>>

NextIncrement == Increment

SpecIncrement == InitIncrement /\ [][NextIncrement]_vars

(***************************************************************************)
(* Score harness: the reports of one employer are folded one at a time     *)
(* (lines 213-248), then the score is derived (lines 276-280).             *)
(***************************************************************************)
MaxFold == 10
MaxMixed == 3

\* The reports tried: a blank one, "ghosted after a verbal offer" (60), "no
\* response after application" (5), one with the worst answer to every
\* question (345), and one that names the stage "constructor".
ScoreReports ==
  { <<>>,
    Row(<< <<Question.Stage, Str(S_AfterVerbalOffer)>> >>),
    Row(<< <<Question.Stage, Str(S_NoResponseApplication)>> >>),
    Row(<< <<Question.Stage, Str(S_AfterVerbalOffer)>>,
           <<Question.Assignment, Str(<<"T","a","k","e","-","h","o","m","e"," ","p","r","o","j","e","c",
                                        "t">>)>>,
           <<Question.Duration, Str(<<"1","0","+"," ","h","o","u","r","s">>)>>,
           <<Question.Paid, Str(<<"N","o">>)>>,
           <<Question.Feedback, Str(<<"N","o",","," ","n","o"," ","f","e","e","d","b","a","c","k">>)>>,
           <<Question.Receipt, Str(<<"N","o">>)>>,
           <<Question.Followup, Str(<<"Y","e","s",","," ","n","o"," ","r","e","s","p","o","n","s","e">>)>>,
           <<Question.Wait, Str(<<"M","o","r","e"," ","t","h","a","n"," ","1"," ","m","o","n","t",
                                  "h">>)>>,
           <<Question.Rejection, Str(<<"N","o",","," ","c","o","m","p","l","e","t","e"," ","s","i","l","e",
                                       "n","c","e">>)>> >>),
    Row(<< <<Question.Stage, Str(<<"c","o","n","s","t","r","u","c","t","o","r">>)>> >>) }

\* The groups tried: up to MaxFold copies of one report, and every mix of up
\* to MaxMixed reports.  main never makes a group without a report.
ScoreGroups ==
  ( {[i \in 1..n |-> r] : n \in 1..MaxFold, r \in ScoreReports}
    \cup SeqsUpTo(ScoreReports, MaxMixed) ) \ {<<>>}

InitScore ==
  /\ groupRows \in ScoreGroups
  /\ stats = newStats
  /\ reportsCount = 0
  /\ incs = [n |-> 0, numeric |-> TRUE]
  /\ score = Num(0)
  /\ spc = "fold"
  /\ RunAtRest /\ NormAtRest /\ IncAtRest /\ FnAtRest

\* One turn of the loop of lines 213-273; incs keeps the sum of the
\* increments apart from the job's own sum.
FoldReport ==
  /\ spc = "fold"
  /\ reportsCount < Len(groupRows)
  /\ stats' = foldReport(stats, groupRows[reportsCount + 1])
  /\ incs' = IF reportIncrement(groupRows[reportsCount + 1]).t = "number"
               THEN [incs EXCEPT !.n = @ + reportIncrement(groupRows[reportsCount + 1]).n]
               ELSE [incs EXCEPT !.numeric = FALSE]
  /\ reportsCount' = reportsCount + 1
  /\ UNCHANGED <<groupRows, score, spc, runVars, normVars, incVars, fnVars>>

\* Lines 276-280, after the loop.
Summarize ==
  /\ spc = "fold"
  /\ reportsCount = Len(groupRows)
  /\ score' = ghostScore(stats.sumIncrements, reportsCount)
  /\ spc' = "done"
  /\ UNCHANGED <<groupRows, stats, reportsCount, incs, runVars, normVars, incVars, fnVars>>

NextScore == FoldReport \/ Summarize

SpecScore == InitScore /\ [][NextScore]_vars

(***************************************************************************)
(* Function harness: a helper of the job applied to arguments drawn from   *)
(* bounded sets.                                                           *)
(***************************************************************************)
MaxCount == 12

\* calculateConfidence for two report counts, the smaller first.
ConfidenceArgs == {<<n, m>> : n \in 0..MaxCount, m \in 0..MaxCount}

\* topNFromCounts for the values (roles, locations, ...) of the reports of one
\* employer: names, a postal code and a number, or no answer.
MaxValues == 4
ListedValues == {<<"d","e","v">>, <<"q","a">>, <<"o","p","s">>, <<"7","5","0","0","1">>, <<"9">>, <<>>}

\* Reports for the grouping: a title and a company name, each absent, empty
\* or filled in.
NamedRows ==
  { Row(<< <<Field.Title, t>>, <<Field.CompanyName, c>> >>) :
      t \in {Undefined, Str(<<>>), Str(<<"A","B">>)},
      c \in {Undefined, Str(<<>>), Str(<<"C","d">>)} }

\* Record shapes for safeGet: the member asked for under its exact name, under
\* a name in another case and inside the nested "fields" container, each
\* absent, null or filled in.
RecordShapes ==
  { Row(<< <<<<"t","i","t","l","e">>, lower>>, <<Field.Title, exact>>, <<Field.fields, nested>> >>) :
      lower \in {Undefined, Null, Str(<<"b">>)},
      exact \in {Undefined, Null, Str(<<"A">>)},
      nested \in {Undefined, Null} \cup
                 { [t |-> "object", o |-> Row(<< <<<<"T","I","T","L","E">>, u>>, <<Field.Title, v>> >>)] :
                     u \in {Undefined, Str(<<"d">>)}, v \in {Undefined, Null, Str(<<"C">>)} } }

\* Reports for the date bounds: no timestamp, one that is no date, and three
\* dates under the member names the job reads.
MaxDated == 3
DatedReports ==
  { <<>>,
    << <<<<"c","r","e","a","t","e","d","_","a","t">>, Str(<<"n","/","a">>)>> >>,
    << <<<<"_","c","r","e","a","t","e","d","_","a","t">>, Str(<<"2","0","2","4","-","0","1","-","0","2">>)>> >>,
    << <<<<"c","r","e","a","t","e","d","A","t">>, Str(<<"2","0","2","4","-","0","1","-","0","1">>)>> >>,
    << <<<<"c","r","e","a","t","e","d">>, Str(<<"2","0","2","4","-","0","2","-","0","1">>)>> >> }

InitFunctions ==
  /\ \/ fn = "calculateConfidence" /\ args \in ConfidenceArgs
     \/ fn = "topNFromCounts" /\ args \in SeqsUpTo(ListedValues, MaxValues)
     \/ fn = "groupFrom" /\ args \in NamedRows
     \/ fn = "safeGet" /\ args \in RecordShapes \X {Field.Title, Field.CompanyName}
     \/ fn = "foldDate" /\ args \in SeqsUpTo(DatedReports, MaxDated)
  /\ result = IF fn = "foldDate"
                THEN [firstDate |-> Null, lastDate |-> Null, folded |-> 0]
                ELSE <<>>
  /\ fpc = "start"
  /\ RunAtRest /\ NormAtRest /\ IncAtRest /\ ScoreAtRest

ApplyConfidence ==
  /\ fpc = "start"
  /\ fn = "calculateConfidence"
  /\ result' = <<calculateConfidence(args[1]), calculateConfidence(args[2])>>
  /\ fpc' = "done"
  /\ UNCHANGED <<fn, args, runVars, normVars, incVars, scoreVars>>

\* const topRoles=topNFromCounts(stats.roleCounts,3) over the table the fold
\* made of the values.
ApplyTopN ==
  /\ fpc = "start"
  /\ fn = "topNFromCounts"
  /\ result' = topNFromCounts(tally(<<>>, args), 3)
  /\ fpc' = "done"
  /\ UNCHANGED <<fn, args, runVars, normVars, incVars, scoreVars>>

\* The grouping loop of main over a source of the one report.
ApplyGroup ==
  /\ fpc = "start"
  /\ fn = "groupFrom"
  /\ result' = groupFrom(<<>>, <<args>>).groups
  /\ fpc' = "done"
  /\ UNCHANGED <<fn, args, runVars, normVars, incVars, scoreVars>>

\* safeGet(row,key)
ApplySafeGet ==
  /\ fpc = "start"
  /\ fn = "safeGet"
  /\ result' = safeGet(args[1], args[2])
  /\ fpc' = "done"
  /\ UNCHANGED <<fn, args, runVars, normVars, incVars, scoreVars>>

\* One turn of the loop over the reports of an employer, for the dates: the
\* bounds after the reports folded so far.
FoldDate ==
  /\ fpc = "start"
  /\ fn = "foldDate"
  /\ result.folded < Len(args)
  /\ result' = [ firstDate |-> foldDate(result, args[result.folded + 1]).firstDate,
                 lastDate |-> foldDate(result, args[result.folded + 1]).lastDate,
                 folded |-> result.folded + 1 ]
  /\ fpc' = IF result.folded + 1 = Len(args) THEN "done" ELSE "start"
  /\ UNCHANGED <<fn, args, runVars, normVars, incVars, scoreVars>>

NextFunctions == ApplyConfidence \/ ApplyTopN \/ ApplyGroup \/ ApplySafeGet \/ FoldDate

SpecFunctions == InitFunctions /\ [][NextFunctions]_vars

(***************************************************************************)
(* The claims                                                              *)
(***************************************************************************)
\* Dry-run mode: the flag is left at its default or set to "true", in a
\* spelling the variant accepts (upsertCompany lowers it, insertRows does not).
DryRunMode ==
  \/ variant = "sync" /\ DRY_RUN \in {Undefined, Str(A_true), Str(<<"T","R","U","E">>)}
  \/ variant = "insert" /\ DRY_RUN \in {Undefined, Str(A_true)}

\* C1: in dry-run mode a run sends no POST and no PATCH, whatever the source
\* reports and the target snapshot hold, whether an employer's key is in the
\* snapshot or not.
C1_DryRunNoWrites == DryRunMode => calls = <<>>
C1_DryRunFinished ==
  /\ DryRunMode
  /\ variant = "sync"
  /\ pc = "finished"
  /\ \E i \in 1..Len(groups) : HasOwn(targetCache, groups[i][1])
  /\ \E i \in 1..Len(groups) : ~HasOwn(targetCache, groups[i][1])
  /\ calls = <<>>

\* C2: in a live run every employer whose key is in the target snapshot is
\* written with an update (PATCH) of the snapshot's row, never with a
\* create (POST).
C2_PresentKeyIsUpdated ==
  variant = "sync" =>
    \A c \in 1..Len(calls) :
      HasOwn(targetCache, groups[calls[c].group][1]) =>
        /\ calls[c].method = "PATCH"
        /\ calls[c].id = OwnValue(targetCache, groups[calls[c].group][1]).id

\* C3: in one live run no two mutating calls are for the same employer, no
\* two updates go to the same target row, and no two creates carry the same
\* resolved key.
C3_AtMostOneWrite ==
  variant = "sync" =>
    \A i, j \in 1..Len(calls) :
      i # j =>
        /\ calls[i].group # calls[j].group
        /\ ~(calls[i].method = "PATCH" /\ calls[j].method = "PATCH"
             /\ calls[i].id = calls[j].id)
        /\ ~(calls[i].method = "POST" /\ calls[j].method = "POST"
             /\ calls[i].key = calls[j].key)

\* Every employer has had one write attempt, in iteration order.
AttemptedEachOnce ==
  /\ Len(calls) = Len(groups)
  /\ \A i \in 1..Len(calls) : calls[i].group = i

\* C4: a failed write does not abort the run: a live run that has reached the
\* write loop always reaches its finished state, and has then attempted
\* every employer exactly once, in iteration order.
C4_FailedWriteDoesNotAbort ==
  /\ []((pc = "finished" /\ DRY_RUN = Str(<<"f","a","l","s","e">>)) => AttemptedEachOnce)
  /\ (pc = "loop") ~> (pc = "finished")
C4_FinishedAfterFailure ==
  /\ variant = "sync"
  /\ pc = "finished"
  /\ Len(groups) >= 2
  /\ Len(calls) = Len(groups)
  /\ ~calls[1].ok

\* A listing request for the source or the target table has failed.
ReadFailed ==
  \E i \in 1..Len(reads) :
    reads[i].table \in {"fetchSource", "fetchTarget"} /\ ~reads[i].ok

\* C5: when a listing request for the source or the target table fails, the
\* run (of either generation of src/index.js) ends as fatal and has sent no
\* POST and no PATCH.
C5_ReadFailureIsFatal ==
  (variant \in {"sync", "aggregate"} /\ ReadFailed) =>
    (pc = "fatal" /\ calls = <<>>)

\* The listing of the source table went through, request by request.
SourceListed ==
  /\ ~ReadFailed
  /\ \/ variant \in {"sync", "aggregate", "insert"} /\ pc # "fetchSource"
     \/ variant = "stream" /\ pc = "finished"

\* C6: a listing that went through returns every row of the table once and
\* in listing order, whatever the size of the table and of the page.
C6_FetchAllReturnsEveryRow == SourceListed => allRows = sourceTable

\* k is the integer nearest to num/den, halves going up.
NearestInteger(k, num, den) ==
  (2 * k - 1) * den <= 2 * num /\ 2 * num < (2 * k + 1) * den

\* k is clamp(round(500 + S*N/(N+1)), 0, 999) for S >= 0: the integer nearest
\* to the quotient while that rounds below 999, else 999.
ClaimedScore(k, S, N) ==
  LET num == 500 * (N + 1) + S * N
      den == N + 1
  IN  IF 2 * num >= (2 * 999 - 1) * den THEN k = 999
      ELSE NearestInteger(k, num, den)

\* C7: for an employer with N reports and summed increment S the GhostScore
\* is clamp(round(500 + S*N/(N+1)), 0, 999); one report of increment 60
\* scores 530, ten reports of increment 60 score 999.
C7_ScoreFormula ==
  (spc = "done" /\ incs.numeric) =>
    /\ score.t = "number"
    /\ ClaimedScore(score.n, incs.n, reportsCount)
    /\ (reportsCount = 1 /\ incs.n = 60) => score.n = 530
    /\ (reportsCount = 10 /\ incs.n = 600) => score.n = 999
C7_TenReportsOfSixty ==
  /\ spc = "done"
  /\ incs.numeric
  /\ reportsCount = 10
  /\ incs.n = 600
  /\ stats.sumIncrements = Num(600)
  /\ score = Num(999)

\* C8: the GhostScore of every employer is an integer in 0..999, whatever
\* the reports hold.
C8_ScoreInRange ==
  spc = "done" => (score.t = "number" /\ score.n \in 0..999)

\* A report in which no scored field holds a recognized value: the stage is
\* none of the weighted ones and every other answer is absent or unrecognized.
KnownStages == {STAGE_WEIGHTS[i][1] : i \in 1..Len(STAGE_WEIGHTS)}
NoRecognizedValue(r) ==
  /\ toString(safeGet(r, Question.Stage)) \notin KnownStages
  /\ \A q \in {Question.Assignment, Question.Duration, Question.Feedback,
               Question.Receipt, Question.Followup, Question.Wait,
               Question.Rejection} : textOf(r, q) = <<>>
  /\ textOf(r, Question.Paid) \in {<<>>, <<"N","o","t"," ","s","u","r","e">>}

\* C9: reportIncrement returns a non-negative integer for every report, and
\* exactly 0 when no scored field holds a recognized value (an unknown stage,
\* every other answer absent or unrecognized).
C9_IncrementNonNegative ==
  ipc = "done" =>
    /\ inc.t = "number"
    /\ inc.n >= 0
    /\ NoRecognizedValue(report) => inc.n = 0

\* C10: normalization is idempotent -- normalizing an already normalized key
\* gives that key back.
C10_Idempotent == npc = "twice" => rekey = key


\* C11: no key that normalization hands out is the empty text -- a name with
\* no content left after normalization gets the sentinel "unknown" like the
\* empty name does.
C11_KeyNeverEmpty ==
  npc \in {"once", "twice"} =>
    /\ key # <<>>
    /\ name = <<>> => key = unknown

\* The confidence of two report counts has been computed.
ConfidenceDone == fn = "calculateConfidence" /\ fpc = "done"

\* C12: confidence(N) is strictly increasing in N for every N >= 0, is 0 at
\* N = 0 and 1 at N = 10, and always lies between 0 and 1.
C12_ConfidenceStrictlyIncreasing ==
  ConfidenceDone =>
    /\ args[1] < args[2] => result[1].log11of < result[2].log11of
    /\ args[1] = 0 => result[1].log11of = 1
    /\ args[1] = 10 => result[1].log11of = 11
    /\ result[1].log11of \in 1..11

\* C12 as the code has it: confidence(N) is strictly increasing for N from 0
\* to 10 and stays at 1 from N = 10 on; it is 0 at N = 0, 1 at N = 10, and
\* always lies between 0 and 1.
C12_ConfidenceSaturates ==
  ConfidenceDone =>
    /\ (args[1] < args[2] /\ args[1] < 10) => result[1].log11of < result[2].log11of
    /\ (args[1] < args[2] /\ args[1] >= 10) => result[1] = result[2]
    /\ args[1] = 0 => result[1].log11of = 1
    /\ args[1] >= 10 => result[1].log11of = 11
    /\ result[1].log11of \in 1..11
C12_TenAndEleven ==
  /\ ConfidenceDone
  /\ args = <<10, 11>>
  /\ result = <<LogRatio(11), LogRatio(11)>>

\* How often v occurs among the values, and where it occurs first.
Occurrences(v, values) == Cardinality({i \in 1..Len(values) : values[i] = v})
FirstSeen(v, values) ==
  CHOOSE i \in 1..Len(values) : values[i] = v /\ \A j \in 1..(i - 1) : values[j] # v

\* C13: a top-3 list has at most 3 entries, lists only values counted at
\* least once, in descending order of their counts, and of two values
\* counted equally often the one seen first comes first.
C13_TopNOrdered ==
  (fn = "topNFromCounts" /\ fpc = "done") =>
    /\ Len(result) <= 3
    /\ \A i \in 1..Len(result) : Occurrences(result[i], args) >= 1
    /\ \A i, j \in 1..Len(result) :
         i < j =>
           /\ Occurrences(result[i], args) >= Occurrences(result[j], args)
           /\ Occurrences(result[i], args) = Occurrences(result[j], args)
                => FirstSeen(result[i], args) < FirstSeen(result[j], args)

\* payload["Data Quality Flag"]: the member of an output record, undefined
\* in a record that has no such member.
FlagOf(payload) ==
  IF "DataQualityFlag" \in DOMAIN payload THEN payload.DataQualityFlag ELSE Undefined

\* C14: the output record of every employer carries the data-quality flag
\* "low-evidence" when the employer has one report, and "ok" otherwise.
C14_DataQualityFlag ==
  variant \in {"sync", "aggregate"} =>
    \A c \in 1..Len(calls) :
      FlagOf(calls[c].payload) =
        IF calls[c].payload.ReportsCount = 1
          THEN Str(<<"l","o","w","-","e","v","i","d","e","n","c","e">>) ELSE Str(<<"o","k">>)

\* The report was grouped; the field f of the report holds a text that is not
\* empty; the display name of the report's group.
Grouped == fn = "groupFrom" /\ fpc = "done" /\ Len(result) = 1
Filled(f) == HasOwn(args, f) /\ OwnValue(args, f) # Str(<<>>)
GroupName == Str(result[1][2].companyName)

\* C15: the display name of a report is taken from "Company Name" when that is
\* present, from the title only when "Company Name" is absent, and is
\* "unknown" when both are absent.
C15_CompanyNamePreferred ==
  Grouped =>
    /\ Filled(Field.CompanyName) => GroupName = OwnValue(args, Field.CompanyName)
    /\ (~Filled(Field.CompanyName) /\ Filled(Field.Title))
         => GroupName = OwnValue(args, Field.Title)
    /\ (~Filled(Field.CompanyName) /\ ~Filled(Field.Title))
         => GroupName = Str(unknown)

\* C15, amended: the display name is taken from the title when that is
\* present, from "Company Name" only when the title is absent or empty, and
\* is "unknown" when both are absent or empty.
C15_TitlePreferred ==
  Grouped =>
    /\ Filled(Field.Title) => GroupName = OwnValue(args, Field.Title)
    /\ (~Filled(Field.Title) /\ Filled(Field.CompanyName))
         => GroupName = OwnValue(args, Field.CompanyName)
    /\ (~Filled(Field.Title) /\ ~Filled(Field.CompanyName))
         => GroupName = Str(unknown)
C15_BothFilled ==
  /\ Grouped
  /\ Filled(Field.Title)
  /\ Filled(Field.CompanyName)
  /\ GroupName = Str(<<"A","B">>)

\* The members of a record and of its "fields" container; the value under the
\* exact name k in a list of members, if there is one.
Members(rec) == SelectSeq(rec, LAMBDA p : p[1] # Field.fields)
NestedMembers(rec) ==
  IF HasOwn(rec, Field.fields) /\ OwnValue(rec, Field.fields) # Null
    THEN OwnValue(rec, Field.fields).o ELSE <<>>
Holds(members, k) == HasOwn(members, k) /\ OwnValue(members, k) # Null
\* The values of the members whose name is k up to case.
ValuesUpToCase(members, k) ==
  {members[i][2] : i \in {j \in 1..Len(members) : toLowerCase(members[j][1]) = toLowerCase(k)}}

\* C16: the accessor returns the value under the exact key on the record,
\* else the one under the exact key in "fields", else the one of a member of
\* either whose name matches up to case, else the empty text; it never
\* returns null or undefined.
C16_AccessorTotal ==
  (fn = "safeGet" /\ fpc = "done") =>
    LET rec == args[1]
        k == args[2]
        matches == ValuesUpToCase(Members(rec), k) \cup ValuesUpToCase(NestedMembers(rec), k)
    IN  /\ result \notin {Null, Undefined}
        /\ IF Holds(Members(rec), k) THEN result = OwnValue(rec, k)
           ELSE IF Holds(NestedMembers(rec), k) THEN result = OwnValue(NestedMembers(rec), k)
           ELSE IF matches # {} THEN result \in matches
           ELSE result = Str(<<>>)

\* The time values of the parsable timestamps among the first k reports.
ParsableTimes(reports, k) ==
  { NewDate(reports[i][1][2]).time.n :
      i \in {j \in 1..k : reports[j] # <<>> /\ NewDate(reports[j][1][2]).time # NaN} }

\* C17: after any sequence of folds the date bounds are both unset when no
\* folded report had a parsable timestamp, and else are the valid dates of the
\* least and the greatest parsable timestamp folded so far (first <= last);
\* so folding a report whose timestamp is absent or unparsable leaves the
\* bounds unchanged.
C17_DateBounds ==
  fn = "foldDate" =>
    LET times == ParsableTimes(args, result.folded)
    IN  IF times = {}
          THEN result.firstDate = Null /\ result.lastDate = Null
          ELSE /\ result.firstDate.t = "date"
               /\ result.lastDate.t = "date"
               /\ result.firstDate.time = Num(CHOOSE x \in times : \A y \in times : x <= y)
               /\ result.lastDate.time = Num(CHOOSE x \in times : \A y \in times : x >= y)

\* The source reports are grouped; the number of reports in the groups.
GroupingDone ==
  \/ variant = "sync" /\ pc \in {"fetchTarget", "loop", "finished"}
  \/ variant = "aggregate" /\ pc \in {"loop", "finished"}
RECURSIVE TotalRows(_)
TotalRows(g) == IF g = <<>> THEN 0 ELSE Len(Head(g)[2].rows) + TotalRows(Tail(g))

\* C18: grouping is a partition of the source reports: every report is in an
\* employer's group, the groups hold as many reports as the source, a group
\* (of main) holds the reports whose normalized display name is its key, and
\* the report count N of an output record is the size of its group.
C18_GroupingIsPartition ==
  GroupingDone =>
    /\ \A i \in 1..Len(allRows) :
         \E g \in 1..Len(groups) :
           \E j \in 1..Len(groups[g][2].rows) : groups[g][2].rows[j] = allRows[i]
    /\ TotalRows(groups) = Len(allRows)
    /\ variant = "sync" =>
         \A g \in 1..Len(groups) :
           \A j \in 1..Len(groups[g][2].rows) :
             groups[g][1] = normalizeCompanyKey(displayName(groups[g][2].rows[j]))
    /\ \A c \in 1..Len(calls) :
         calls[c].payload.ReportsCount = Len(groups[calls[c].group][2].rows)

\* The outcome counters of an aggregate, by the name of their member.
OutcomeCounters ==
  { "assignmentGivenCount", "unpaidCount", "receiptYesCount", "feedbackYesCount",
    "feedbackNoCount", "followupNoResponseCount", "followupVagueCount",
    "officialRejectionCount", "aiScreeningCount", "applyAgainYesCount",
    "recommendYesCount" }
\* The sum of the counts of a table of stage counts.
RECURSIVE SumOfCounts(_)
SumOfCounts(counts) ==
  IF counts = <<>> THEN 0 ELSE Head(counts)[2].n + SumOfCounts(Tail(counts))

\* C19: after any number of folds every outcome counter is at most N,
\* feedback-yes and feedback-no together are at most N, the stage counts are
\* numbers that sum to N, and every percentage of a counter lies between 0 and
\* 100 (0 and 1000 tenths) and is 0 when N = 0.
C19_CountersAtMostN ==
  spc \in {"fold", "done"} =>
    /\ \A c \in OutcomeCounters :
         /\ stats[c] \in 0..reportsCount
         /\ pct(stats[c], reportsCount) \in 0..1000
         /\ reportsCount = 0 => pct(stats[c], reportsCount) = 0
    /\ stats.feedbackYesCount + stats.feedbackNoCount <= reportsCount
    /\ \A i \in 1..Len(stats.stageCounts) : stats.stageCounts[i][2].t = "number"
    /\ SumOfCounts(stats.stageCounts) = reportsCount

\* The requests that start a listing of the target table.
TargetListings ==
  {i \in 1..Len(reads) : reads[i].table = "fetchTarget" /\ reads[i].offset = Num(0)}
\* In a state of a run of main: the target is listed once when the loop is
\* reached and never twice, no request for the source follows one for the
\* target, a write is sent only once the loop is reached, and every write is
\* an update exactly when the snapshot has a row identifier under its key.
ListedOnceBeforeWrites ==
  /\ Cardinality(TargetListings) <= 1
  /\ pc \in {"loop", "finished"} => Cardinality(TargetListings) = 1
  /\ \A i, j \in 1..Len(reads) :
       (i < j /\ reads[i].table = "fetchTarget") => reads[j].table = "fetchTarget"
  /\ calls # <<>> => pc \in {"loop", "finished"}
  /\ \A c \in 1..Len(calls) :
       calls[c].method = "PATCH" <=> hasRowId(Or(Get(targetCache, calls[c].key), Null))
\* In a step of a run of main: once the loop is reached the snapshot stays as
\* it is and no table is listed any more.
SnapshotKept ==
  pc \in {"loop", "finished"} => (targetCache' = targetCache /\ reads' = reads)

\* C20: in every run of main the target table is listed exactly once, after
\* the source listing and before the first write, and the snapshot is never
\* modified afterwards: every create/update decision is taken against the
\* same snapshot.
C20_SnapshotReadOnce ==
  /\ [](variant = "sync" => ListedOnceBeforeWrites)
  /\ [][variant = "sync" => SnapshotKept]_vars
C20_CreatedAndFinished ==
  /\ variant = "sync"
  /\ pc = "finished"
  /\ Len(calls) >= 2
  /\ calls[1].method = "POST"
  /\ calls[1].ok
  /\ Len(targetTable) >= 1
  /\ \E i \in 1..Len(reads) : reads[i].table = "fetchTarget"

====
